---- MODULE Spec2Model ----
(***************************************************************************)
(* Model of the interactive image-annotation core of src/lib/Group.svelte: *)
(* calibration (calculateScale), group statistics (calculateGroupResults), *)
(* the pointer / click / keyboard handlers, group management and the       *)
(* viewport transform.                                                     *)
(*                                                                         *)
(* Numbers.  JavaScript numbers are modelled exactly:                      *)
(*   - a rational is a pair <<n, d>> in lowest terms with d > 0;           *)
(*   - a value that can carry square roots (the scale, real coordinates,   *)
(*     statistics) is a finite sum of terms q * sqrt(r), kept as the set   *)
(*     of pairs <<r, q>> with r a squarefree positive integer and q a      *)
(*     non-zero rational, at most one term per r.  The empty set is 0.     *)
(***************************************************************************)
EXTENDS Integers, Sequences, FiniteSets, TLC

\* JavaScript's null, one value per type of the variable that holds it
NULL == "null"
NoObject == [null |-> TRUE]
NoNumber == {<<0, <<0, 1>>>>}
NoIndex == -1

\* ------------------------------------------------------------------------
\* Exact rational arithmetic
\* ------------------------------------------------------------------------
Abs(n) == IF n < 0 THEN -n ELSE n

RECURSIVE Gcd(_, _)
Gcd(a, b) == IF b = 0 THEN a ELSE Gcd(b, a % b)

Norm(n, d) ==
    LET s == IF d < 0 THEN -1 ELSE 1
        g == Gcd(Abs(n), Abs(d))
    IN  <<(s * n) \div g, (s * d) \div g>>

R(n) == <<n, 1>>
\* products are cancelled before they are formed to keep the integers small
RAdd(a, b) ==
    LET g == Gcd(a[2], b[2])
    IN  Norm(a[1] * (b[2] \div g) + b[1] * (a[2] \div g), (a[2] \div g) * b[2])
RSub(a, b) == RAdd(a, <<-b[1], b[2]>>)
RMul(a, b) ==
    LET g1 == Gcd(Abs(a[1]), b[2])
        g2 == Gcd(Abs(b[1]), a[2])
    IN  Norm((a[1] \div g1) * (b[1] \div g2), (a[2] \div g2) * (b[2] \div g1))
RDiv(a, b) == RMul(a, Norm(b[2], b[1]))
RLt(a, b) == a[1] * b[2] < b[1] * a[2]
RLe(a, b) == a[1] * b[2] <= b[1] * a[2]
RMax(a, b) == IF RLt(a, b) THEN b ELSE a
RMin(a, b) == IF RLt(b, a) THEN b ELSE a

\* ------------------------------------------------------------------------
\* Sums of square roots
\* ------------------------------------------------------------------------
NZero == {}
NRat(q) == IF q[1] = 0 THEN {} ELSE {<<1, q>>}
NInt(n) == NRat(R(n))
NIsRat(a) == \A t \in a : t[1] = 1
\* the rational value of a sum without irrational terms
NToRat(a) == IF a = {} THEN R(0) ELSE (CHOOSE t \in a : t[1] = 1)[2]
NCoef(a, r) == IF \E t \in a : t[1] = r THEN (CHOOSE t \in a : t[1] = r)[2] ELSE R(0)
NRads(a) == {t[1] : t \in a}

NAdd(a, b) ==
    {t \in {<<r, RAdd(NCoef(a, r), NCoef(b, r))>> : r \in NRads(a) \cup NRads(b)} :
        t[2][1] # 0}
NNeg(a) == {<<t[1], <<-t[2][1], t[2][2]>>>> : t \in a}
NSub(a, b) == NAdd(a, NNeg(b))
NScale(a, q) == IF q[1] = 0 THEN {} ELSE {<<t[1], RMul(t[2], q)>> : t \in a}

\* sqrt(r1) * sqrt(r2) = g * sqrt(r1 * r2 / g^2), g = gcd(r1, r2), r1 and r2 squarefree
TermMul(s, t) ==
    LET g == Gcd(s[1], t[1])
    IN  <<(s[1] * t[1]) \div (g * g), RMul(RMul(s[2], t[2]), R(g))>>

RECURSIVE NSum(_)
NSum(terms) ==
    IF terms = {} THEN {}
    ELSE LET t == CHOOSE x \in terms : TRUE
         IN  NAdd({t[2]}, NSum(terms \ {t}))

\* terms are tagged with the pair they come from so equal products are both counted
NMul(a, b) == NSum({<<<<s, t>>, TermMul(s, t)>> : s \in a, t \in b})

\* a multiple of k whose square exceeds m
RECURSIVE SqBound(_, _)
SqBound(m, k) == IF k * k > m THEN k ELSE SqBound(m, 2 * k)

\* largest j with j*j dividing m, searched from k upwards; 1 when there is none
SqPart(m, k) ==
    LET roots == {j \in k..SqBound(m, k) : m % (j * j) = 0}
    IN  IF roots = {} THEN 1 ELSE CHOOSE j \in roots : \A i \in roots : i <= j

\* Math.sqrt of a non-negative rational n/d = (a*a*r1)/(b*b*r2):
\* a/(b*r2) * sqrt(r1*r2)
RSqrt(q) ==
    IF q[1] = 0 THEN {}
    ELSE LET a  == SqPart(q[1], 2)
             b  == SqPart(q[2], 2)
             r1 == q[1] \div (a * a)
             r2 == q[2] \div (b * b)
         IN  {<<r1 * r2, Norm(a, b * r2)>>}

\* Math.sqrt of a sum that has a rational value
NSqrt(a) == RSqrt(NToRat(a))

\* 1 / (q * sqrt(r)) = (1 / (q * r)) * sqrt(r), for a single non-zero term
NInv(a) ==
    LET t == CHOOSE x \in a : TRUE
    IN  {<<t[1], RDiv(R(1), RMul(t[2], R(t[1])))>>}
\* a / b for a single-term non-zero divisor b
NDiv(a, b) == NMul(a, NInv(b))


\* Math.atan2(y, x) normalised to [0, 2*pi), kept as the direction of the ray:
\* the pair <<p, q>> of coprime integers with (y, x) = k * (p, q), k > 0.
\* atan2(0, 0) = 0 is the direction <<0, 1>>.  y and x are single terms over
\* the same square root (or zero).
Atan2Dir(y, x) ==
    IF y = {} /\ x = {} THEN <<0, 1>>
    ELSE LET r  == CHOOSE k \in NRads(y) \cup NRads(x) : TRUE
             a  == NCoef(y, r)
             b  == NCoef(x, r)
             p0 == a[1] * b[2]
             q0 == b[1] * a[2]
             g  == Gcd(Abs(p0), Abs(q0))
         IN  <<p0 \div g, q0 \div g>>

\* ------------------------------------------------------------------------
\* Program constants
\* ------------------------------------------------------------------------
NUDGE_AMOUNT_DISPLAY_PIXELS == 2
MIN_SCALE_LINE_PIXELS == 5
MAX_BUFFER_DIM == 4096
ClickToleranceRenderPixels == 15
FlagResetDelayMs == 50
InfoBoxOffsetXImage == 15
InfoBoxPad == 4
legendFontSize == 12
MAX_ZOOM == 20
MIN_ZOOM == <<1, 100>>
ZOOM_FACTOR == <<6, 5>>

\* ------------------------------------------------------------------------
\* The environment: the page the component is mounted in
\* ------------------------------------------------------------------------
\* window.devicePixelRatio read in onMount
dpr == 2
\* clientWidth / clientHeight of the canvas (and of the canvas area around it)
Display == [width |-> 160, height |-> 160]
\* natural size of the bitmap createImageBitmap decodes: a photograph of
\* 80 x 60 pixels, and a scan of 400 x 400 pixels named "target.png"
Bitmap == [width |-> 80, height |-> 60]
BitmapOf(file) == IF file = "target.png" THEN [width |-> 400, height |-> 400] ELSE Bitmap
\* ctx.measureText(...).width of the widest info-box line, in CSS pixels
MeasuredTextWidth == 72
\* files offered by the file input
Files == {"a.png"}

Pt(x, y) == [x |-> R(x), y |-> R(y)]
\* Pointer positions in display coordinates (relative to the canvas):
\* two positions over the image (the upper one on its top edge) and one
\* outside the canvas.
PosTop == Pt(80, 20)
PosMid == Pt(80, 100)
PosOff == Pt(200, 100)
PointerPositions == {PosTop, PosMid, PosOff}
\* a position on the canvas above the drawn image, in the letterbox padding
PosPad == Pt(80, 10)
\* positions to the right of the marks, where their info boxes are: one over
\* the image and one over the padding above it
PosBox == Pt(120, 100)
PosBoxPad == Pt(120, 10)
\* a position in the middle of a large canvas, and the position of a click on
\* one of the zoom buttons, which are laid out above the canvas
PosFar == Pt(1000, 500)
PosButton == Pt(20, -40)
\* sizes the canvas area is resized to: the initial one, a narrower one, and
\* two of a maximised window on a large screen
DisplaySizes == {Display, [width |-> 120, height |-> 160],
                 [width |-> 2100, height |-> 1050], [width |-> 2400, height |-> 1200]}

\* values typed into the reference-length and target-distance inputs
RefLengths == {0, 1, 2}
TargetDistances == {0, 100}

\* ------------------------------------------------------------------------
\* Bounds of the model
\* ------------------------------------------------------------------------
MaxGroups == 2
MaxHoles == 2
MaxNudges == 1
MaxTimers == 2
MaxDecoding == 1
MaxGroupIds == 2
MaxPointerDowns == 3
MaxZooms == 2
MaxReloads == 2


\* ------------------------------------------------------------------------
\* State
\* ------------------------------------------------------------------------
\* s     the component's variables (the script's `let` declarations), the
\*       canvas element's buffer size, its size on the page (display) and
\*       pointer capture, and the runtime's
\*       queues: pending createImageBitmap promises (decoding), animation-frame
\*       callbacks (raf), microtasks (micro) and pending flag-reset timers.
\*       s.calib is what the calculateScale call of the last step returned
\*       ("ok" for true, "rejected" for false), "none" if it made no call.
\* ptr   the pointer: whether it is pressed, and where it went down
\* click the click event the browser dispatches after a pointer-up on the
\*       canvas, not yet delivered
VARIABLES s, ptr, click
vars == <<s, ptr, click>>

\* the pointer position p, relative to the canvas, is over the canvas
OnCanvas(p) ==
    /\ RLe(R(0), p.x) /\ RLe(p.x, R(s.display.width))
    /\ RLe(R(0), p.y) /\ RLe(p.y, R(s.display.height))

Modes == {"loading", "scaling", "placingHoles", "placingAim", "selectingHole", "panning"}
ReferenceUnits == {"inches", "mm"}
DistanceUnits == {"yards", "meters"}
ResultUnits == {"inches", "mm"}
AngularUnits == {"moa", "mrad"}

\* Indices are 0-based as in the source; a JavaScript array a is the sequence
\* with a[i] at position i + 1.
At(seq, i) == seq[i + 1]
RECURSIVE SeqMap(_, _)
SeqMap(Op(_), seq) ==
    IF seq = <<>> THEN <<>> ELSE <<Op(Head(seq))>> \o SeqMap(Op, Tail(seq))
RemoveAt(seq, i) == SubSeq(seq, 1, i) \o SubSeq(seq, i + 2, Len(seq))

InitState ==
    [ imageFile |-> NULL, imageUrl |-> NULL, ctx |-> FALSE, imageBitmap |-> NoObject,
      canvas |-> [width |-> 300, height |-> 150],
      mode |-> "loading", scale |-> NoNumber,
      referenceUnit |-> "inches", referenceLength |-> 1,
      resultDisplayUnit |-> "inches", angularUnitDisplay |-> "moa",
      targetDistanceUnit |-> "yards", targetDistance |-> 100,
      refLineStart |-> NoObject, refLineEnd |-> NoObject, isDrawingRefLine |-> FALSE,
      viewScale |-> R(1), viewCenter |-> Pt(0, 0), lastViewport |-> NoObject,
      isPanning |-> FALSE, panStartPointerCoords |-> NoObject, panStartViewCenter |-> NoObject,
      groups |-> <<>>, activeGroupIndex |-> -1, nextGroupId |-> 0,
      selectedHoleIndex |-> NoIndex,
      isDraggingInfoBox |-> FALSE, draggingGroupIndex |-> NoIndex,
      dragStartPointerCoords |-> NoObject, dragStartInfoBoxAnchorImage |-> NoObject,
      ignoreNextClick |-> FALSE, fitScaleValue |-> R(1),
      letterboxParams |-> [dx |-> R(0), dy |-> R(0), dWidth |-> R(0), dHeight |-> R(0)],
      isDraggingHole |-> FALSE, draggingHoleStartCoords |-> NoObject,
      display |-> Display,
      capture |-> FALSE, decoding |-> <<>>, raf |-> <<>>, micro |-> <<>>,
      timers |-> 0, nudges |-> 0, downs |-> 0, zooms |-> 0, calib |-> "none" ]

\* the canvas is rendered inside {#if imageUrl}
canvasElement(st) == st.imageUrl # NULL
\* `scale` used as a condition: neither null nor 0
Truthy(sc) == sc # NoNumber /\ sc # NZero

\* ------------------------------------------------------------------------
\* Unit conversion
\* ------------------------------------------------------------------------
\* metres per unit, from the unit-conversion library
UnitInMeters(u) ==
    CASE u = "inches" -> <<127, 5000>>
      [] u = "cm"     -> <<1, 100>>
      [] u = "mm"     -> <<1, 1000>>
      [] u = "yards"  -> <<1143, 1250>>
      [] u = "meters" -> <<1, 1>>

convertUnits(value, from, to) ==
    IF from = to THEN value
    ELSE NScale(value, RDiv(UnitInMeters(from), UnitInMeters(to)))

\* mrad -> MOA is the factor (180 / pi * 60) / 1000 = (54 / 5) / pi.
\* A MOA value is kept as its multiple of 1 / pi.
mrad2moa(mrad) == NScale(mrad, <<54, 5>>)

\* ------------------------------------------------------------------------
\* Coordinate transformation
\* ------------------------------------------------------------------------
imageToCanvasCoords(st, imgP) ==
    IF \/ st.lastViewport = NoObject
       \/ ~canvasElement(st)
       \/ RLe(st.letterboxParams.dWidth, R(0))
       \/ RLe(st.letterboxParams.dHeight, R(0))
    THEN NoObject
    ELSE LET vp   == st.lastViewport
             lb   == st.letterboxParams
             relX == IF RLt(R(0), vp.sWidth) THEN RDiv(RSub(imgP.x, vp.sx), vp.sWidth) ELSE R(0)
             relY == IF RLt(R(0), vp.sHeight) THEN RDiv(RSub(imgP.y, vp.sy), vp.sHeight) ELSE R(0)
         IN  [x |-> RAdd(lb.dx, RMul(relX, lb.dWidth)),
              y |-> RAdd(lb.dy, RMul(relY, lb.dHeight))]

\* the second half of canvasToImageCoords without the test against the letterbox
BufferToImageCoordsUntested(st, ptrXBuf, ptrYBuf) ==
    LET vp == st.lastViewport
        lb == st.letterboxParams
    IN  [x |-> RMax(R(0),
                    RMin(RAdd(vp.sx, RMul(RDiv(RSub(ptrXBuf, lb.dx), lb.dWidth), vp.sWidth)),
                         R(st.imageBitmap.width))),
         y |-> RMax(R(0),
                    RMin(RAdd(vp.sy, RMul(RDiv(RSub(ptrYBuf, lb.dy), lb.dHeight), vp.sHeight)),
                         R(st.imageBitmap.height)))]

\* the second half of canvasToImageCoords with the letterbox offset left out
BufferToImageCoordsFromOrigin(st, ptrXBuf, ptrYBuf) ==
    LET vp == st.lastViewport
        lb == st.letterboxParams
    IN  IF \/ RLt(ptrXBuf, lb.dx)
           \/ RLt(RAdd(lb.dx, lb.dWidth), ptrXBuf)
           \/ RLt(ptrYBuf, lb.dy)
           \/ RLt(RAdd(lb.dy, lb.dHeight), ptrYBuf)
        THEN NoObject
        ELSE [x |-> RMax(R(0),
                         RMin(RAdd(vp.sx, RMul(RDiv(ptrXBuf, lb.dWidth), vp.sWidth)),
                              R(st.imageBitmap.width))),
              y |-> RMax(R(0),
                         RMin(RAdd(vp.sy, RMul(RDiv(ptrYBuf, lb.dHeight), vp.sHeight)),
                              R(st.imageBitmap.height)))]

\* the second half of canvasToImageCoords, from the pointer's buffer coordinates
BufferToImageCoords(st, ptrXBuf, ptrYBuf) ==
    LET vp == st.lastViewport
        lb == st.letterboxParams
    IN  IF \/ RLt(ptrXBuf, lb.dx)
           \/ RLt(RAdd(lb.dx, lb.dWidth), ptrXBuf)
           \/ RLt(ptrYBuf, lb.dy)
           \/ RLt(RAdd(lb.dy, lb.dHeight), ptrYBuf)
        THEN NoObject
        ELSE [x |-> RMax(R(0),
                         RMin(RAdd(vp.sx, RMul(RDiv(RSub(ptrXBuf, lb.dx), lb.dWidth), vp.sWidth)),
                              R(st.imageBitmap.width))),
              y |-> RMax(R(0),
                         RMin(RAdd(vp.sy, RMul(RDiv(RSub(ptrYBuf, lb.dy), lb.dHeight), vp.sHeight)),
                              R(st.imageBitmap.height)))]

canvasToImageCoords(st, cvsPtrP) ==
    IF \/ st.lastViewport = NoObject
       \/ ~canvasElement(st)
       \/ st.display.width = 0 \/ st.display.height = 0
       \/ RLe(st.letterboxParams.dWidth, R(0))
       \/ RLe(st.letterboxParams.dHeight, R(0))
       \/ st.imageBitmap = NoObject
    THEN NoObject
    ELSE BufferToImageCoords(st,
             RMul(RDiv(cvsPtrP.x, R(st.display.width)), R(st.canvas.width)),
             RMul(RDiv(cvsPtrP.y, R(st.display.height)), R(st.canvas.height)))

\* One axis of calculateViewport, as <<start, size>> of the visible source
\* range.  ViewportAxis computes sWidth = displayW / viewScale and
\* sx = viewCenter.x - sWidth / 2; ViewportClip applies the two `if`s;
\* ViewportClamp the closing Math.max / Math.min.
ViewportClamp(start, size, img) ==
    <<RMax(R(0), RMin(start, RSub(R(img), size))), size>>

\* calculateViewport's axis without the two `if`s that cut the range at the
\* image's edges
ViewportFitUncut(start, size, img) == ViewportClamp(start, RMax(R(1), size), img)

ViewportFit(start, size, img) ==
    ViewportClamp(start,
                  RMax(R(1), IF RLt(R(img), RAdd(start, size)) THEN RSub(R(img), start) ELSE size),
                  img)

ViewportClip(start, size, img) ==
    IF RLt(start, R(0)) THEN ViewportFit(R(0), RAdd(size, start), img)
    ELSE ViewportFit(start, size, img)

ViewportSpan(centre, size, img) == ViewportClip(RSub(centre, RDiv(size, R(2))), size, img)

ViewportAxis(centre, viewScale, display, img) ==
    ViewportSpan(centre, RDiv(R(display), viewScale), img)

ViewportOf(h, v) == [sx |-> h[1], sy |-> v[1], sWidth |-> h[2], sHeight |-> v[2]]

calculateViewport(st) ==
    IF ~canvasElement(st) \/ st.imageBitmap = NoObject \/ st.display.width = 0 \/ st.display.height = 0
    THEN NoObject
    ELSE ViewportOf(
             ViewportAxis(st.viewCenter.x, st.viewScale, st.display.width, st.imageBitmap.width),
             ViewportAxis(st.viewCenter.y, st.viewScale, st.display.height, st.imageBitmap.height))

\* The destination rectangle redrawCanvas draws the source rectangle into.
\* LetterboxFit is the branch on the aspect ratios, LetterboxClamp the closing
\* Math.max / Math.min on dWidth and dHeight, LetterboxRect those on dx and dy.
LetterboxRect(cW, cH, dx, dy, dWidth, dHeight) ==
    [dx |-> RMax(R(0), RMin(RSub(R(cW), dWidth), dx)),
     dy |-> RMax(R(0), RMin(RSub(R(cH), dHeight), dy)),
     dWidth |-> dWidth, dHeight |-> dHeight]

LetterboxClamp(cW, cH, dx, dy, dWidth, dHeight) ==
    LetterboxRect(cW, cH, dx, dy, RMax(R(1), RMin(R(cW), dWidth)), RMax(R(1), RMin(R(cH), dHeight)))

LetterboxWide(cW, cH, dHeight) ==
    LetterboxClamp(cW, cH, R(0), RDiv(RSub(R(cH), dHeight), R(2)), R(cW), dHeight)

LetterboxTall(cW, cH, dWidth) ==
    LetterboxClamp(cW, cH, RDiv(RSub(R(cW), dWidth), R(2)), R(0), dWidth, R(cH))

LetterboxFit(cW, cH, sourceAspect) ==
    IF RLe(RDiv(R(cW), R(cH)), sourceAspect)
    THEN LetterboxWide(cW, cH, RDiv(R(cW), sourceAspect))
    ELSE LetterboxTall(cW, cH, RMul(R(cH), sourceAspect))

Letterbox(vp, cW, cH) == LetterboxFit(cW, cH, RDiv(vp.sWidth, vp.sHeight))


\* ------------------------------------------------------------------------
\* Drawing: the parts of a redraw that change state
\* ------------------------------------------------------------------------
\* drawInfoBox measures the box (caching infoBoxSize on the group) and
\* computes the anchor the first time it draws a group without one.
InfoBoxLines(g) ==
    1 + 1
    + (IF g.maxSpread # NoNumber \/ Len(g.bulletHolesReal) < 2 THEN 1 ELSE 0)
    + (IF g.meanRadius # NoNumber THEN 1 ELSE 0)
    + (IF g.offsetFromAim # NoObject THEN 1 ELSE 0)

InfoBoxHeight(g) ==
    RAdd(RMul(R(InfoBoxLines(g)), RMul(R(legendFontSize), <<6, 5>>)), R(InfoBoxPad * 2))

\* the centroid in image pixels: centroidReal * scale
CentroidImage(st, g) ==
    [x |-> NToRat(NMul(g.centroidReal.x, st.scale)),
     y |-> NToRat(NMul(g.centroidReal.y, st.scale))]

InfoBoxAnchor(st, g, boxH) ==
    IF /\ g.infoBoxAnchorImage = NoObject
       /\ g.centroidReal # NoObject
       /\ Truthy(st.scale)
       /\ st.lastViewport # NoObject
       /\ st.display.height > 0
       /\ RLt(R(0), st.lastViewport.sHeight)
    THEN [x |-> RAdd(CentroidImage(st, g).x, R(InfoBoxOffsetXImage)),
          y |-> RSub(CentroidImage(st, g).y,
                     RMul(RDiv(RDiv(boxH, R(2)), R(st.display.height)), st.lastViewport.sHeight))]
    ELSE g.infoBoxAnchorImage

drawInfoBox(st, g) ==
    [g EXCEPT !.infoBoxSize = [width |-> R(MeasuredTextWidth + InfoBoxPad * 2),
                               height |-> InfoBoxHeight(g)],
              !.infoBoxAnchorImage = InfoBoxAnchor(st, g, InfoBoxHeight(g))]

drawGroupElements(st, g) ==
    IF st.lastViewport = NoObject \/ RLe(st.viewScale, R(0)) THEN g
    ELSE IF /\ g.resultsValid
            /\ \/ g.infoBoxAnchorImage # NoObject
               \/ /\ g.centroidReal # NoObject
                  /\ imageToCanvasCoords(st, CentroidImage(st, g)) # NoObject
    THEN drawInfoBox(st, g)
    ELSE g

RECURSIVE drawGroups(_, _)
\* groups.forEach((_, i) => drawGroupElements(i)), from index i on
drawGroups(st, i) ==
    IF i >= Len(st.groups) THEN st
    ELSE drawGroups([st EXCEPT !.groups[i + 1] = drawGroupElements(st, @)], i + 1)

redrawWith(st, vp) ==
    IF vp = NoObject THEN st
    ELSE IF Truthy(st.scale)
    THEN drawGroups([st EXCEPT !.lastViewport = vp,
                               !.letterboxParams = Letterbox(vp, st.canvas.width, st.canvas.height)],
                    0)
    ELSE [st EXCEPT !.lastViewport = vp,
                    !.letterboxParams = Letterbox(vp, st.canvas.width, st.canvas.height)]

redrawCanvas(st) ==
    IF ~st.ctx \/ ~canvasElement(st) \/ st.imageBitmap = NoObject THEN st
    ELSE redrawWith(st, calculateViewport(st))

\* requestAnimationFrame(cb): callbacks run in request order at the next frame.
\* A second pending redraw changes nothing the first does not, so it is not queued twice.
requestAnimationFrame(st, cb) ==
    IF cb = "redrawCanvas" /\ \E i \in 1..Len(st.raf) : st.raf[i] = cb THEN st
    ELSE [st EXCEPT !.raf = Append(st.raf, cb)]

\* ------------------------------------------------------------------------
\* Group statistics
\* ------------------------------------------------------------------------
RECURSIVE SumX(_)
SumX(hs) == IF hs = <<>> THEN NZero ELSE NAdd(Head(hs).x, SumX(Tail(hs)))
RECURSIVE SumY(_)
SumY(hs) == IF hs = <<>> THEN NZero ELSE NAdd(Head(hs).y, SumY(Tail(hs)))

DistSq(a, b) ==
    LET dx == NSub(a.x, b.x)
        dy == NSub(a.y, b.y)
    IN  NAdd(NMul(dx, dx), NMul(dy, dy))

RECURSIVE SumDistFrom(_, _)
SumDistFrom(hs, c) ==
    IF hs = <<>> THEN NZero
    ELSE NAdd(NSqrt(DistSq(Head(hs), c)), SumDistFrom(Tail(hs), c))

\* the nested loop over i < j with maxDistSq = Math.max(maxDistSq, dx*dx + dy*dy)
RECURSIVE MaxDistSqFrom(_, _, _, _)
MaxDistSqFrom(hs, i, j, acc) ==
    IF i > Len(hs) THEN acc
    ELSE IF j > Len(hs) THEN MaxDistSqFrom(hs, i + 1, i + 2, acc)
    ELSE MaxDistSqFrom(hs, i, j + 1, RMax(acc, NToRat(DistSq(hs[i], hs[j]))))

\* calculateGroupResults writes the group's fields one after the other; each
\* step below is one block of the function, reading what the earlier blocks
\* stored on the group.
ResetResults(g) ==
    [g EXCEPT !.centroidReal = NoObject, !.meanRadius = NoNumber, !.maxSpread = NoNumber,
              !.meanRadiusMOA = NoNumber, !.meanRadiusMRAD = NoNumber,
              !.maxSpreadMOA = NoNumber, !.maxSpreadMRAD = NoNumber,
              !.offsetFromAim = NoObject, !.resultsValid = FALSE]

StoreCentroid(g) ==
    [g EXCEPT !.centroidReal =
        [x |-> NScale(SumX(g.bulletHolesReal), <<1, Len(g.bulletHolesReal)>>),
         y |-> NScale(SumY(g.bulletHolesReal), <<1, Len(g.bulletHolesReal)>>)]]

\* the spread computed whatever the number of holes: 0 for a single hole
StoreSpreadOfAny(g) ==
    [g EXCEPT !.meanRadius = NScale(SumDistFrom(g.bulletHolesReal, g.centroidReal),
                                    <<1, Len(g.bulletHolesReal)>>),
              !.maxSpread = RSqrt(MaxDistSqFrom(g.bulletHolesReal, 1, 2, R(0)))]

\* the spread stored without its square root
StoreSpreadSquared(g) ==
    [g EXCEPT !.meanRadius = NScale(SumDistFrom(g.bulletHolesReal, g.centroidReal),
                                    <<1, Len(g.bulletHolesReal)>>),
              !.maxSpread = IF Len(g.bulletHolesReal) >= 2
                            THEN NRat(MaxDistSqFrom(g.bulletHolesReal, 1, 2, R(0)))
                            ELSE NoNumber]

StoreSpread(g) ==
    [g EXCEPT !.meanRadius = NScale(SumDistFrom(g.bulletHolesReal, g.centroidReal),
                                    <<1, Len(g.bulletHolesReal)>>),
              !.maxSpread = IF Len(g.bulletHolesReal) >= 2
                            THEN RSqrt(MaxDistSqFrom(g.bulletHolesReal, 1, 2, R(0)))
                            ELSE NoNumber]

\* convertUnits(targetDistance, targetDistanceUnit, "meters")
DistMeters(st) ==
    NToRat(convertUnits(NInt(st.targetDistance), st.targetDistanceUnit, "meters"))

\* convertUnits(len, referenceUnit, "meters") / distMeters * 1000
Mrad(st, len, distMeters) ==
    IF len # NoNumber
    THEN NScale(convertUnits(len, st.referenceUnit, "meters"),
                RMul(RDiv(R(1), distMeters), R(1000)))
    ELSE NoNumber

StoreMrad(st, g, distMeters) ==
    IF RLt(R(0), distMeters)
    THEN [g EXCEPT !.meanRadiusMRAD = Mrad(st, g.meanRadius, distMeters),
                   !.maxSpreadMRAD = Mrad(st, g.maxSpread, distMeters)]
    ELSE g

StoreMoa(g) ==
    [g EXCEPT !.meanRadiusMOA = IF g.meanRadiusMRAD # NoNumber THEN mrad2moa(g.meanRadiusMRAD)
                                ELSE NoNumber,
              !.maxSpreadMOA = IF g.maxSpreadMRAD # NoNumber THEN mrad2moa(g.maxSpreadMRAD)
                               ELSE NoNumber]

StoreAngular(st, g) ==
    IF st.targetDistance > 0 THEN StoreMoa(StoreMrad(st, g, DistMeters(st))) ELSE g

\* distance and direction of the vector (dx, dy) from the aiming point to the centroid
OffsetOf(dx, dy) ==
    [distance |-> NSqrt(NAdd(NMul(dx, dx), NMul(dy, dy))),
     angleDegrees |-> Atan2Dir(NNeg(dy), dx)]

StoreOffset(g) ==
    [g EXCEPT !.offsetFromAim =
                  IF g.aimingPointReal # NoObject /\ g.centroidReal # NoObject
                  THEN OffsetOf(NSub(g.centroidReal.x, g.aimingPointReal.x),
                                NSub(g.centroidReal.y, g.aimingPointReal.y))
                  ELSE NoObject,
              !.resultsValid = TRUE]

GroupResults(st, g) ==
    IF Len(g.bulletHolesReal) = 0 THEN ResetResults(g)
    ELSE StoreOffset(StoreAngular(st, StoreSpread(StoreCentroid(ResetResults(g)))))

calculateGroupResults(st, idx) ==
    IF idx < 0 \/ idx >= Len(st.groups) \/ ~Truthy(st.scale) THEN st
    ELSE redrawCanvas([st EXCEPT !.groups[idx + 1] = GroupResults(st, @)])

RECURSIVE calculateAllGroupResults(_, _)
\* groups.forEach((_, i) => calculateGroupResults(i)), from index i on
calculateAllGroupResults(st, i) ==
    IF i >= Len(st.groups) THEN st
    ELSE calculateAllGroupResults(calculateGroupResults(st, i), i + 1)

\* invalidateResults that forgets to clear the flag
invalidateResultsKept(st, idx) == st

\* invalidateResults that also sends the info box back to its place
invalidateResultsClearingAnchor(st, idx) ==
    IF idx >= 0 /\ idx < Len(st.groups) /\ At(st.groups, idx).resultsValid
    THEN [st EXCEPT !.groups[idx + 1].resultsValid = FALSE,
                    !.groups[idx + 1].infoBoxAnchorImage = NoObject]
    ELSE st

invalidateResults(st, idx) ==
    IF idx >= 0 /\ idx < Len(st.groups) /\ At(st.groups, idx).resultsValid
    THEN [st EXCEPT !.groups[idx + 1].resultsValid = FALSE]
    ELSE st


\* ------------------------------------------------------------------------
\* Calibration
\* ------------------------------------------------------------------------
\* real coordinates computed by multiplying by the scale instead of dividing
ToRealTimes(p, sc) == [x |-> NMul(NRat(p.x), sc), y |-> NMul(NRat(p.y), sc)]

ToReal(p, sc) == [x |-> NDiv(NRat(p.x), sc), y |-> NDiv(NRat(p.y), sc)]

PxDistSq(a, b) ==
    LET dx == RSub(a.x, b.x)
        dy == RSub(a.y, b.y)
    IN  RAdd(RMul(dx, dx), RMul(dy, dy))

\* `await tick()` and `tick().then(...)`: the rest of the function runs as a microtask
tick(st, continuation) == [st EXCEPT !.micro = Append(@, continuation)]

\* calculateScale that recomputes the coordinates but leaves the old results valid
RescaleGroupsKeepingResults(st, sc) ==
    LET Real(p) == ToReal(p, sc)
        Recalc(g) ==
            [g EXCEPT !.bulletHolesReal = SeqMap(Real, g.bulletHolesPixels),
                      !.aimingPointReal =
                          IF g.aimingPointPixels # NoObject THEN ToReal(g.aimingPointPixels, sc)
                          ELSE NoObject,
                      !.infoBoxAnchorImage = NoObject]
    IN  tick([st EXCEPT !.scale = sc, !.groups = SeqMap(Recalc, st.groups), !.calib = "ok"],
             "calculateScale")

\* the success branch of calculateScale, for the new scale sc
RescaleGroups(st, sc) ==
    LET Real(p) == ToReal(p, sc)
        Recalc(g) ==
            [g EXCEPT !.bulletHolesReal = SeqMap(Real, g.bulletHolesPixels),
                      !.aimingPointReal =
                          IF g.aimingPointPixels # NoObject THEN ToReal(g.aimingPointPixels, sc)
                          ELSE NoObject,
                      !.resultsValid = FALSE,
                      !.infoBoxAnchorImage = NoObject]
    IN  tick([st EXCEPT !.scale = sc, !.groups = SeqMap(Recalc, st.groups), !.calib = "ok"],
             "calculateScale")

\* the scale as the line length multiplied by the reference length
ScaleFromLineTimes(st, lenSq) ==
    IF RLt(lenSq, R(MIN_SCALE_LINE_PIXELS * MIN_SCALE_LINE_PIXELS))
    THEN [st EXCEPT !.scale = NoNumber, !.refLineStart = NoObject, !.refLineEnd = NoObject,
                    !.calib = "rejected"]
    ELSE RescaleGroups(st, NScale(RSqrt(lenSq), <<st.referenceLength, 1>>))

\* calculateScale from the squared length of the reference line: the test
\* lenPx < MIN_SCALE_LINE_PIXELS compares two non-negative numbers
ScaleFromLine(st, lenSq) ==
    IF RLt(lenSq, R(MIN_SCALE_LINE_PIXELS * MIN_SCALE_LINE_PIXELS))
    THEN [st EXCEPT !.scale = NoNumber, !.refLineStart = NoObject, !.refLineEnd = NoObject,
                    !.calib = "rejected"]
    ELSE RescaleGroups(st, NScale(RSqrt(lenSq), <<1, st.referenceLength>>))

\* the state calculateScale leaves; calib records the boolean it returns
calculateScale(st) ==
    IF \/ st.refLineStart = NoObject
       \/ st.refLineEnd = NoObject
       \/ st.referenceLength = 0
       \/ st.referenceLength <= 0
    THEN [st EXCEPT !.scale = NoNumber, !.calib = "rejected"]
    ELSE ScaleFromLine(st, PxDistSq(st.refLineEnd, st.refLineStart))

\* ------------------------------------------------------------------------
\* Group management
\* ------------------------------------------------------------------------
NewGroup(id) ==
    [ id |-> id,
      bulletHolesPixels |-> <<>>, bulletHolesReal |-> <<>>,
      centroidReal |-> NoObject, meanRadius |-> NoNumber, maxSpread |-> NoNumber,
      meanRadiusMOA |-> NoNumber, meanRadiusMRAD |-> NoNumber,
      maxSpreadMOA |-> NoNumber, maxSpreadMRAD |-> NoNumber,
      aimingPointPixels |-> NoObject, aimingPointReal |-> NoObject, offsetFromAim |-> NoObject,
      resultsValid |-> FALSE, infoBoxAnchorImage |-> NoObject, infoBoxSize |-> NoObject ]

ModeForState(st) ==
    IF st.imageBitmap = NoObject THEN "loading"
    ELSE IF ~Truthy(st.scale) THEN "scaling"
    ELSE "placingHoles"

addNewGroup(st) ==
    redrawCanvas(
        [st EXCEPT !.groups = Append(st.groups, NewGroup(st.nextGroupId)),
                   !.nextGroupId = st.nextGroupId + 1,
                   !.activeGroupIndex = Len(st.groups),
                   !.selectedHoleIndex = NoIndex,
                   !.mode = ModeForState(st)])

switchToGroup(st, idx) ==
    IF idx >= 0 /\ idx < Len(st.groups) /\ idx # st.activeGroupIndex
    THEN redrawCanvas([st EXCEPT !.activeGroupIndex = idx,
                                 !.selectedHoleIndex = NoIndex,
                                 !.mode = ModeForState(st)])
    ELSE st

\* deleteGroup without its branch for the list left empty
deleteGroupLeavingNone(st, idx, confirmed) ==
    IF idx < 0 \/ idx >= Len(st.groups) \/ ~confirmed THEN st
    ELSE
    LET rest == RemoveAt(st.groups, idx)
        a0 == IF st.activeGroupIndex = idx
              THEN (IF idx - 1 > 0 THEN idx - 1 ELSE 0)
              ELSE IF st.activeGroupIndex > idx THEN st.activeGroupIndex - 1
              ELSE st.activeGroupIndex
        a1 == IF a0 >= Len(rest) THEN Len(rest) - 1 ELSE a0
    IN  [st EXCEPT !.groups = rest,
                   !.activeGroupIndex = a1,
                   !.micro = Append(st.micro, "redrawCanvas")]

\* deleteGroup that leaves activeGroupIndex alone unless the active group is
\* the one deleted
deleteGroupKeepingIndex(st, idx, confirmed) ==
    IF idx < 0 \/ idx >= Len(st.groups) \/ ~confirmed THEN st
    ELSE
    LET rest == RemoveAt(st.groups, idx)
    IN  IF rest = <<>>
        THEN addNewGroup([st EXCEPT !.groups = rest, !.activeGroupIndex = -1])
        ELSE [st EXCEPT !.groups = rest,
                        !.activeGroupIndex = IF @ = idx
                                             THEN (IF idx - 1 > 0 THEN idx - 1 ELSE 0)
                                             ELSE @,
                        !.micro = Append(st.micro, "redrawCanvas")]

deleteGroup(st, idx, confirmed) ==
    IF idx < 0 \/ idx >= Len(st.groups) \/ ~confirmed THEN st
    ELSE
    LET rest == RemoveAt(st.groups, idx)
    IN  IF rest = <<>>
        THEN addNewGroup([st EXCEPT !.groups = rest, !.activeGroupIndex = -1])
        ELSE
        LET a0 == IF st.activeGroupIndex = idx
                  THEN (IF idx - 1 > 0 THEN idx - 1 ELSE 0)
                  ELSE IF st.activeGroupIndex > idx THEN st.activeGroupIndex - 1
                  ELSE st.activeGroupIndex
            a1 == IF a0 >= Len(rest) THEN Len(rest) - 1 ELSE a0
        IN  [st EXCEPT !.groups = rest,
                       !.activeGroupIndex = a1,
                       !.micro = Append(st.micro, "redrawCanvas")]

\* ------------------------------------------------------------------------
\* Hole deletion and nudging
\* ------------------------------------------------------------------------
\* deleteSelectedHole without its range test: splice() removes nothing at an
\* index past the end, and the rest of the function runs
deleteSelectedHoleUnchecked(st) ==
    IF st.activeGroupIndex = -1 \/ st.selectedHoleIndex = NoIndex THEN st
    ELSE LET Splice(seq) == IF st.selectedHoleIndex < Len(seq)
                            THEN RemoveAt(seq, st.selectedHoleIndex) ELSE seq
         IN  tick(invalidateResults(
                      [st EXCEPT
                          !.groups[st.activeGroupIndex + 1].bulletHolesPixels = Splice(@),
                          !.groups[st.activeGroupIndex + 1].bulletHolesReal = Splice(@),
                          !.selectedHoleIndex = NoIndex],
                      st.activeGroupIndex),
                  "calculateGroupResults")

deleteSelectedHole(st) ==
    IF st.activeGroupIndex = -1 \/ st.selectedHoleIndex = NoIndex THEN st
    ELSE IF \/ st.selectedHoleIndex < 0
            \/ st.selectedHoleIndex >= Len(At(st.groups, st.activeGroupIndex).bulletHolesPixels)
    THEN [st EXCEPT !.selectedHoleIndex = NoIndex]
    ELSE tick(invalidateResults(
                  [st EXCEPT
                      !.groups[st.activeGroupIndex + 1].bulletHolesPixels =
                          RemoveAt(@, st.selectedHoleIndex),
                      !.groups[st.activeGroupIndex + 1].bulletHolesReal =
                          RemoveAt(@, st.selectedHoleIndex),
                      !.selectedHoleIndex = NoIndex],
                  st.activeGroupIndex),
              "calculateGroupResults")

\* a moved hole left where the move put it
ClampToImageSkipped(st, p) == p

ClampToImage(st, p) ==
    IF st.imageBitmap # NoObject
    THEN [x |-> RMax(R(0), RMin(p.x, R(st.imageBitmap.width))),
          y |-> RMax(R(0), RMin(p.y, R(st.imageBitmap.height)))]
    ELSE p

\* the selected hole of the active group moved to hPx, in pixels and in real units
MoveSelectedHole(st, hPx) ==
    invalidateResults(
        [st EXCEPT
            !.groups[st.activeGroupIndex + 1].bulletHolesPixels[st.selectedHoleIndex + 1] = hPx,
            !.groups[st.activeGroupIndex + 1].bulletHolesReal =
                IF st.selectedHoleIndex < Len(@)
                THEN [@ EXCEPT ![st.selectedHoleIndex + 1] = ToReal(hPx, st.scale)]
                ELSE @],
        st.activeGroupIndex)

nudgeSelectedHolePx(st, dxI, dyI) ==
    IF /\ Truthy(st.scale)
       /\ st.activeGroupIndex # -1
       /\ st.selectedHoleIndex # NoIndex
       /\ st.selectedHoleIndex >= 0
       /\ st.selectedHoleIndex < Len(At(st.groups, st.activeGroupIndex).bulletHolesPixels)
    THEN LET hPx == At(At(st.groups, st.activeGroupIndex).bulletHolesPixels, st.selectedHoleIndex)
         IN  tick([MoveSelectedHole(st, ClampToImage(st, [x |-> RAdd(hPx.x, dxI),
                                                         y |-> RAdd(hPx.y, dyI)]))
                      EXCEPT !.nudges = @ + 1],
                  "calculateGroupResults")
    ELSE st

Keys == {"ArrowUp", "Delete"}

handleKeyDown(st, key) ==
    IF \/ st.activeGroupIndex = -1
       \/ st.selectedHoleIndex = NoIndex
       \/ ~Truthy(st.scale)
       \/ st.lastViewport = NoObject
       \/ ~canvasElement(st)
       \/ st.display.width <= 0 \/ st.display.height <= 0
    THEN st
    ELSE IF key \in {"Delete", "Backspace"} THEN deleteSelectedHole(st)
    ELSE IF key \notin {"ArrowUp", "ArrowDown", "ArrowLeft", "ArrowRight"} THEN st
    ELSE
    LET nudgeXImage == RMul(RDiv(R(NUDGE_AMOUNT_DISPLAY_PIXELS), R(st.display.width)),
                            st.lastViewport.sWidth)
        nudgeYImage == RMul(RDiv(R(NUDGE_AMOUNT_DISPLAY_PIXELS), R(st.display.height)),
                            st.lastViewport.sHeight)
    IN  nudgeSelectedHolePx(st,
            CASE key = "ArrowLeft"  -> RSub(R(0), nudgeXImage)
              [] key = "ArrowRight" -> nudgeXImage
              [] OTHER              -> R(0),
            CASE key = "ArrowUp"    -> RSub(R(0), nudgeYImage)
              [] key = "ArrowDown"  -> nudgeYImage
              [] OTHER              -> R(0))


\* ------------------------------------------------------------------------
\* Pointer handlers
\* ------------------------------------------------------------------------
isPointInRect(p, r) ==
    /\ RLe(r.x, p.x) /\ RLe(p.x, RAdd(r.x, r.width))
    /\ RLe(r.y, p.y) /\ RLe(p.y, RAdd(r.y, r.height))

\* the display rectangle handleCanvasPointerDown tests for group g's info box,
\* from the anchor's buffer coordinates
InfoBoxDisplayRect(st, g, aCvsRender) ==
    [x |-> RMul(RDiv(aCvsRender.x, R(st.canvas.width)), R(st.display.width)),
     y |-> RMul(RDiv(aCvsRender.y, R(st.canvas.height)), R(st.display.height)),
     width |-> RMul(RDiv(RMul(g.infoBoxSize.width, R(dpr)), R(st.canvas.width)),
                    R(st.display.width)),
     height |-> RMul(RDiv(RMul(g.infoBoxSize.height, R(dpr)), R(st.canvas.height)),
                     R(st.display.height))]

\* the rectangle drawInfoBox fills for group g, in display coordinates: the
\* anchor's buffer position clamped so that the whole box is in the buffer
InfoBoxDrawnRect(st, g, pos) ==
    LET boxW == RMul(g.infoBoxSize.width, R(dpr))
        boxH == RMul(g.infoBoxSize.height, R(dpr))
        posX == RMax(R(0), RMin(pos.x, RSub(R(st.canvas.width), boxW)))
        posY == RMax(R(0), RMin(pos.y, RSub(R(st.canvas.height), boxH)))
    IN  [x |-> RMul(RDiv(posX, R(st.canvas.width)), R(st.display.width)),
         y |-> RMul(RDiv(posY, R(st.canvas.height)), R(st.display.height)),
         width |-> RMul(RDiv(boxW, R(st.canvas.width)), R(st.display.width)),
         height |-> RMul(RDiv(boxH, R(st.canvas.height)), R(st.display.height))]

InfoBoxHitAt(st, g, dCoords, aCvsRender) ==
    /\ aCvsRender # NoObject
    /\ isPointInRect(dCoords, InfoBoxDisplayRect(st, g, aCvsRender))

InfoBoxHit(st, g, dCoords) ==
    /\ g.resultsValid
    /\ g.infoBoxAnchorImage # NoObject
    /\ g.infoBoxSize # NoObject
    /\ st.canvas.width > 0 /\ st.canvas.height > 0
    /\ st.display.width > 0 /\ st.display.height > 0
    /\ InfoBoxHitAt(st, g, dCoords, imageToCanvasCoords(st, g.infoBoxAnchorImage))

RECURSIVE InfoBoxUnder(_, _, _)
\* the loop over the groups from the last to the first: the index of the first
\* group whose info box is under the pointer, or NoIndex
InfoBoxUnder(st, dCoords, i) ==
    IF i < 0 THEN NoIndex
    ELSE IF InfoBoxHit(st, At(st.groups, i), dCoords) THEN i
    ELSE InfoBoxUnder(st, dCoords, i - 1)

\* tolerance of hole hit-testing in image pixels, squared
ClickToleranceImagePixelsSq(st) ==
    LET tol == RMul(RDiv(R(ClickToleranceRenderPixels * dpr), R(st.canvas.width)),
                    st.lastViewport.sWidth)
    IN  RMul(tol, tol)

\* handleCanvasPointerDown after the info-box loop found no box under the pointer
PointerDownOnImage(st, dCoords, iCoords) ==
    IF /\ st.mode = "selectingHole"
       /\ st.selectedHoleIndex # NoIndex
       /\ Truthy(st.scale)
       /\ st.activeGroupIndex >= 0 /\ st.activeGroupIndex < Len(st.groups)
       /\ st.selectedHoleIndex < Len(At(st.groups, st.activeGroupIndex).bulletHolesPixels)
       /\ RLe(PxDistSq(iCoords, At(At(st.groups, st.activeGroupIndex).bulletHolesPixels,
                                   st.selectedHoleIndex)),
              ClickToleranceImagePixelsSq(st))
    THEN [st EXCEPT !.isDraggingHole = TRUE,
                    !.draggingHoleStartCoords = iCoords,
                    !.capture = TRUE]
    ELSE IF st.mode = "panning"
    THEN [st EXCEPT !.isPanning = TRUE,
                    !.panStartPointerCoords = dCoords,
                    !.panStartViewCenter = st.viewCenter,
                    !.capture = TRUE]
    ELSE IF st.mode = "scaling"
    THEN redrawCanvas([st EXCEPT !.capture = TRUE,
                                 !.isDrawingRefLine = TRUE,
                                 !.refLineStart = iCoords,
                                 !.refLineEnd = iCoords])
    ELSE st

\* handleCanvasPointerDown from the info-box loop on; box is the loop's result
PointerDownOn(st, dCoords, iCoords, box) ==
    IF box # NoIndex
    THEN [st EXCEPT !.isDraggingInfoBox = TRUE,
                    !.draggingGroupIndex = box,
                    !.dragStartPointerCoords = dCoords,
                    !.dragStartInfoBoxAnchorImage = At(st.groups, box).infoBoxAnchorImage,
                    !.capture = TRUE]
    ELSE PointerDownOnImage(st, dCoords, iCoords)

\* handleCanvasPointerDown from the test of iCoords on
PointerDownAt(st, dCoords, iCoords) ==
    IF iCoords = NoObject THEN st
    ELSE PointerDownOn([st EXCEPT !.isDraggingInfoBox = FALSE, !.isPanning = FALSE,
                                  !.isDraggingHole = FALSE],
                       dCoords, iCoords, InfoBoxUnder(st, dCoords, Len(st.groups) - 1))

handleCanvasPointerDown(st, dCoords) ==
    IF ~canvasElement(st) \/ ~st.ctx \/ st.lastViewport = NoObject \/ st.imageBitmap = NoObject
    THEN st
    ELSE PointerDownAt(st, dCoords, canvasToImageCoords(st, dCoords))

clampViewCenter(st) ==
    IF \/ st.imageBitmap = NoObject \/ ~canvasElement(st)
       \/ st.display.width = 0 \/ st.display.height = 0
       \/ RLe(st.viewScale, R(0))
    THEN st
    ELSE
    LET imgW == R(st.imageBitmap.width)
        imgH == R(st.imageBitmap.height)
        minX == RDiv(RDiv(R(st.display.width), st.viewScale), R(2))
        maxX == RSub(imgW, minX)
        minY == RDiv(RDiv(R(st.display.height), st.viewScale), R(2))
        maxY == RSub(imgH, minY)
    IN  [st EXCEPT !.viewCenter =
            [x |-> IF RLe(minX, maxX) THEN RMax(minX, RMin(st.viewCenter.x, maxX))
                   ELSE RDiv(imgW, R(2)),
             y |-> IF RLe(minY, maxY) THEN RMax(minY, RMin(st.viewCenter.y, maxY))
                   ELSE RDiv(imgH, R(2))]]

\* the info-box branch of handleWindowPointerMove
MoveInfoBox(st, startPtrI, curPtrI) ==
    IF /\ startPtrI # NoObject /\ curPtrI # NoObject
       /\ st.draggingGroupIndex < Len(st.groups)
    THEN requestAnimationFrame(
             [st EXCEPT !.groups[st.draggingGroupIndex + 1].infoBoxAnchorImage =
                 [x |-> RAdd(st.dragStartInfoBoxAnchorImage.x, RSub(curPtrI.x, startPtrI.x)),
                  y |-> RAdd(st.dragStartInfoBoxAnchorImage.y, RSub(curPtrI.y, startPtrI.y))]],
             "redrawCanvas")
    ELSE st

\* the hole-drag branch of handleWindowPointerMove
DragSelectedHole(st, curPtrI) ==
    IF /\ curPtrI # NoObject /\ st.activeGroupIndex # -1
       /\ st.activeGroupIndex < Len(st.groups)
       /\ st.selectedHoleIndex < Len(At(st.groups, st.activeGroupIndex).bulletHolesPixels)
    THEN requestAnimationFrame(MoveSelectedHole(st, ClampToImage(st, curPtrI)), "redrawCanvas")
    ELSE st

\* the reference-line branch of handleWindowPointerMove
MoveRefLineEnd(st, curPtrI) ==
    IF curPtrI # NoObject
    THEN requestAnimationFrame([st EXCEPT !.refLineEnd = curPtrI], "redrawCanvas")
    ELSE st

handleWindowPointerMove(st, curPtrD) ==
    IF ~canvasElement(st) \/ st.lastViewport = NoObject \/ st.display.width <= 0 \/ st.display.height <= 0
    THEN st
    ELSE IF /\ st.isPanning /\ st.panStartPointerCoords # NoObject
            /\ st.panStartViewCenter # NoObject /\ st.capture
    THEN requestAnimationFrame(
             clampViewCenter([st EXCEPT !.viewCenter =
                 [x |-> RSub(st.panStartViewCenter.x,
                             RMul(RDiv(RSub(curPtrD.x, st.panStartPointerCoords.x),
                                       R(st.display.width)),
                                  st.lastViewport.sWidth)),
                  y |-> RSub(st.panStartViewCenter.y,
                             RMul(RDiv(RSub(curPtrD.y, st.panStartPointerCoords.y),
                                       R(st.display.height)),
                                  st.lastViewport.sHeight))]]),
             "redrawCanvas")
    ELSE IF /\ st.isDraggingInfoBox /\ st.draggingGroupIndex # NoIndex
            /\ st.dragStartPointerCoords # NoObject
            /\ st.dragStartInfoBoxAnchorImage # NoObject /\ st.capture
    THEN MoveInfoBox(st, canvasToImageCoords(st, st.dragStartPointerCoords),
                     canvasToImageCoords(st, curPtrD))
    ELSE IF st.isDraggingHole /\ st.selectedHoleIndex # NoIndex /\ Truthy(st.scale)
    THEN DragSelectedHole(st, canvasToImageCoords(st, curPtrD))
    ELSE IF /\ st.mode = "scaling" /\ st.isDrawingRefLine
            /\ st.refLineStart # NoObject /\ st.capture
    THEN MoveRefLineEnd(st, canvasToImageCoords(st, curPtrD))
    ELSE st

\* the end of a reference-line draw: `if (calculateScale()) mode = "placingHoles"`
\* and its two else branches; c is the state calculateScale left
AfterCalculateScale(c) ==
    IF c.calib = "ok" THEN [c EXCEPT !.mode = "placingHoles"]
    ELSE [c EXCEPT !.refLineStart = NoObject, !.refLineEnd = NoObject]

FinishRefLine(st) ==
    IF st.refLineStart # NoObject /\ st.refLineEnd # NoObject
    THEN AfterCalculateScale(calculateScale(st))
    ELSE [st EXCEPT !.refLineStart = NoObject, !.refLineEnd = NoObject]

EndRefLineAt(st, finalI) ==
    FinishRefLine([st EXCEPT !.capture = FALSE, !.isDrawingRefLine = FALSE,
                             !.refLineEnd = IF finalI # NoObject THEN finalI ELSE @])

\* the state left by the branch of handleWindowPointerUp that ends the drag
PointerUpBranch(st, ptrD) ==
    IF st.isPanning /\ canvasElement(st) /\ st.capture
    THEN [st EXCEPT !.capture = FALSE, !.isPanning = FALSE,
                    !.panStartPointerCoords = NoObject, !.panStartViewCenter = NoObject]
    ELSE IF st.isDraggingInfoBox /\ canvasElement(st) /\ st.capture
    THEN redrawCanvas([st EXCEPT !.capture = FALSE, !.isDraggingInfoBox = FALSE,
                                 !.draggingGroupIndex = NoIndex,
                                 !.dragStartPointerCoords = NoObject,
                                 !.dragStartInfoBoxAnchorImage = NoObject])
    ELSE IF st.isDraggingHole /\ canvasElement(st) /\ st.capture
    THEN redrawCanvas(
             IF st.activeGroupIndex # -1
             THEN calculateGroupResults(
                      [st EXCEPT !.capture = FALSE, !.isDraggingHole = FALSE,
                                 !.draggingHoleStartCoords = NoObject],
                      st.activeGroupIndex)
             ELSE [st EXCEPT !.capture = FALSE, !.isDraggingHole = FALSE,
                             !.draggingHoleStartCoords = NoObject])
    ELSE IF st.mode = "scaling" /\ st.isDrawingRefLine /\ canvasElement(st) /\ st.capture
    THEN redrawCanvas(EndRefLineAt(st, canvasToImageCoords(st, ptrD)))
    ELSE st

\* whether handleWindowPointerUp sets the suppress-next-click flag
WasDragging(st) ==
    \/ st.isPanning \/ st.isDraggingInfoBox \/ st.isDraggingHole
    \/ (st.mode = "scaling" /\ st.isDrawingRefLine /\ canvasElement(st) /\ st.capture)

\* if (wasDragging) { ignoreNextClick = true; setTimeout(..., 50) }
SuppressNextClick(st, wasDragging) ==
    IF wasDragging THEN [st EXCEPT !.ignoreNextClick = TRUE, !.timers = @ + 1] ELSE st

handleWindowPointerUp(st, ptrD) ==
    [SuppressNextClick(PointerUpBranch(st, ptrD), WasDragging(st))
        EXCEPT !.isPanning = FALSE, !.isDraggingInfoBox = FALSE,
               !.isDraggingHole = FALSE, !.isDrawingRefLine = FALSE,
               !.panStartPointerCoords = NoObject, !.panStartViewCenter = NoObject,
               !.dragStartPointerCoords = NoObject, !.dragStartInfoBoxAnchorImage = NoObject,
               !.draggingHoleStartCoords = NoObject]

\* a timer callback that leaves the flag to the next click
FlagResetTimerKeepingFlag(st) == [st EXCEPT !.timers = @ - 1]

\* setTimeout(() => { ignoreNextClick = false }, 50)
FlagResetTimer(st) == [st EXCEPT !.ignoreNextClick = FALSE, !.timers = @ - 1]


\* ------------------------------------------------------------------------
\* Click handler
\* ------------------------------------------------------------------------
\* the selection loop of handleCanvasClick: from the last hole down, keeping a
\* hole only when it is strictly closer than the closest so far
RECURSIVE ClosestHole(_, _, _, _, _)
ClosestHole(holes, iCoords, tolSq, i, best) ==
    IF i < 0 THEN best
    ELSE IF /\ RLt(PxDistSq(iCoords, At(holes, i)), tolSq)
            /\ (best.index = -1 \/ RLt(PxDistSq(iCoords, At(holes, i)), best.dSq))
    THEN ClosestHole(holes, iCoords, tolSq, i - 1,
                     [index |-> i, dSq |-> PxDistSq(iCoords, At(holes, i))])
    ELSE ClosestHole(holes, iCoords, tolSq, i - 1, best)

\* selectedHoleIndex = found ? closestIndex : null
SelectClosest(st, found) ==
    [st EXCEPT !.selectedHoleIndex = IF found.index # -1 THEN found.index ELSE NoIndex]

\* handleCanvasClick putting the new hole first in the list
ClickAtFront(st, iCoords) ==
    IF iCoords = NoObject THEN st
    ELSE IF st.mode = "placingHoles" /\ Truthy(st.scale)
    THEN tick(invalidateResults(
                  [st EXCEPT
                      !.groups[st.activeGroupIndex + 1].bulletHolesPixels = <<iCoords>> \o @,
                      !.groups[st.activeGroupIndex + 1].bulletHolesReal =
                          <<ToReal(iCoords, st.scale)>> \o @,
                      !.selectedHoleIndex =
                          Len(At(st.groups, st.activeGroupIndex).bulletHolesPixels)],
                  st.activeGroupIndex),
              "calculateGroupResults")
    ELSE IF st.mode = "placingAim" /\ Truthy(st.scale)
    THEN tick(invalidateResults(
                  [st EXCEPT
                      !.groups[st.activeGroupIndex + 1].aimingPointPixels = iCoords,
                      !.groups[st.activeGroupIndex + 1].aimingPointReal =
                          ToReal(iCoords, st.scale)],
                  st.activeGroupIndex),
              "placingAim")
    ELSE IF st.mode = "selectingHole"
    THEN IF ~Truthy(st.scale) \/ st.lastViewport = NoObject \/ st.canvas.width <= 0
         THEN st
         ELSE redrawCanvas(SelectClosest(st,
                  ClosestHole(At(st.groups, st.activeGroupIndex).bulletHolesPixels, iCoords,
                      ClickToleranceImagePixelsSq(st),
                      Len(At(st.groups, st.activeGroupIndex).bulletHolesPixels) - 1,
                      [index |-> -1, dSq |-> R(0)])))
    ELSE st

\* handleCanvasClick from the test of iCoords on
ClickAt(st, iCoords) ==
    IF iCoords = NoObject THEN st
    ELSE IF st.mode = "placingHoles" /\ Truthy(st.scale)
    THEN tick(invalidateResults(
                  [st EXCEPT
                      !.groups[st.activeGroupIndex + 1].bulletHolesPixels = Append(@, iCoords),
                      !.groups[st.activeGroupIndex + 1].bulletHolesReal =
                          Append(@, ToReal(iCoords, st.scale)),
                      !.selectedHoleIndex =
                          Len(At(st.groups, st.activeGroupIndex).bulletHolesPixels)],
                  st.activeGroupIndex),
              "calculateGroupResults")
    ELSE IF st.mode = "placingAim" /\ Truthy(st.scale)
    THEN tick(invalidateResults(
                  [st EXCEPT
                      !.groups[st.activeGroupIndex + 1].aimingPointPixels = iCoords,
                      !.groups[st.activeGroupIndex + 1].aimingPointReal =
                          ToReal(iCoords, st.scale)],
                  st.activeGroupIndex),
              "placingAim")
    ELSE IF st.mode = "selectingHole"
    THEN IF ~Truthy(st.scale) \/ st.lastViewport = NoObject \/ st.canvas.width <= 0
         THEN st
         ELSE redrawCanvas(SelectClosest(st,
                  ClosestHole(At(st.groups, st.activeGroupIndex).bulletHolesPixels, iCoords,
                      ClickToleranceImagePixelsSq(st),
                      Len(At(st.groups, st.activeGroupIndex).bulletHolesPixels) - 1,
                      [index |-> -1, dSq |-> R(0)])))
    ELSE st

handleCanvasClick(st, dCoords) ==
    IF st.ignoreNextClick THEN [st EXCEPT !.ignoreNextClick = FALSE]
    ELSE IF st.isPanning \/ st.isDrawingRefLine \/ ~canvasElement(st) \/ st.activeGroupIndex = -1
    THEN st
    ELSE ClickAt(st, canvasToImageCoords(st, dCoords))

\* the continuation of handleCanvasClick leaving the mode as it is
AfterResultsKeepingMode(st, task) == st

\* what follows calculateGroupResults in the continuation of handleCanvasClick
AfterResults(st, task) ==
    IF task = "placingAim" THEN [st EXCEPT !.mode = "placingHoles"] ELSE st

\* the continuations recomputing the first group whichever group is active
RunMicrotaskOnFirstGroup(st, task) ==
    redrawCanvas(
        CASE task = "calculateScale" -> calculateAllGroupResults(st, 0)
          [] task \in {"calculateGroupResults", "placingAim"} ->
                AfterResults(calculateGroupResults(st, 0), task)
          [] task = "redrawCanvas" -> st)

\* the continuation of an `await tick()` / `tick().then(...)`: each ends in redrawCanvas()
RunMicrotask(st, task) ==
    redrawCanvas(
        CASE task = "calculateScale" -> calculateAllGroupResults(st, 0)
          [] task \in {"calculateGroupResults", "placingAim"} ->
                AfterResults(calculateGroupResults(st, st.activeGroupIndex), task)
          [] task = "redrawCanvas" -> st)

\* ------------------------------------------------------------------------
\* Mode and settings controls
\* ------------------------------------------------------------------------
enterScaleMode(st) ==
    redrawCanvas([st EXCEPT !.mode = "scaling", !.refLineStart = NoObject, !.refLineEnd = NoObject,
                            !.isDrawingRefLine = FALSE, !.selectedHoleIndex = NoIndex])

\* the four mode buttons of the toolbar: each sets the mode, all but Select
\* clear the selection, and each ends in redrawCanvas()
ModeButton(st, button) ==
    redrawCanvas(
        [st EXCEPT
            !.mode = CASE button = "pan" ->
                              IF st.mode = "panning"
                              THEN (IF Truthy(st.scale) THEN "placingHoles" ELSE "scaling")
                              ELSE "panning"
                       [] button = "holes"  -> "placingHoles"
                       [] button = "aim"    -> "placingAim"
                       [] button = "select" -> "selectingHole",
            !.selectedHoleIndex = IF button = "select" THEN @ ELSE NoIndex])

\* handleTargetDistanceChange that takes the scale for stale
handleTargetDistanceChangeClearingScale(st) ==
    [calculateAllGroupResults(st, 0) EXCEPT !.scale = NoNumber]

handleTargetDistanceChange(st) == calculateAllGroupResults(st, 0)

\* the results are shown in another unit: nothing is recomputed
handleResultUnitChange(st) ==
    IF \E i \in 1..Len(st.groups) : st.groups[i].resultsValid THEN redrawCanvas(st) ELSE st

handleAngularUnitChange(st) ==
    IF \E i \in 1..Len(st.groups) : st.groups[i].resultsValid THEN redrawCanvas(st) ELSE st

\* without both end points there is nothing to recompute: calib records "noLine"
handleReferenceInputChange(st) ==
    IF st.refLineStart # NoObject /\ st.refLineEnd # NoObject
    THEN calculateScale(st)
    ELSE LET Inv(g) == [g EXCEPT !.resultsValid = FALSE, !.infoBoxAnchorImage = NoObject]
         IN  redrawCanvas([st EXCEPT !.scale = NoNumber, !.mode = "scaling",
                                     !.groups = SeqMap(Inv, st.groups),
                                     !.calib = "noLine"])

\* ------------------------------------------------------------------------
\* Image loading
\* ------------------------------------------------------------------------
resetStateForNewImage(st) ==
    [st EXCEPT !.scale = NoNumber, !.refLineStart = NoObject, !.refLineEnd = NoObject,
               !.isDrawingRefLine = FALSE, !.imageBitmap = NoObject,
               !.groups = <<>>, !.activeGroupIndex = -1, !.nextGroupId = 0,
               !.selectedHoleIndex = NoIndex,
               !.isDraggingInfoBox = FALSE, !.draggingGroupIndex = NoIndex,
               !.dragStartPointerCoords = NoObject, !.dragStartInfoBoxAnchorImage = NoObject,
               !.ignoreNextClick = FALSE,
               !.isPanning = FALSE, !.panStartPointerCoords = NoObject,
               !.panStartViewCenter = NoObject,
               !.viewScale = R(1), !.viewCenter = Pt(0, 0), !.lastViewport = NoObject,
               !.mode = "loading", !.fitScaleValue = R(1)]

reset(st, confirmed) ==
    IF ~confirmed THEN st
    ELSE [resetStateForNewImage(st) EXCEPT !.imageFile = NULL, !.imageUrl = NULL,
                                           !.ctx = FALSE]

\* file = NULL stands for a selection that is no image file
handleFileSelect(st, file, confirmed) ==
    IF file # NULL
    THEN requestAnimationFrame(
             [resetStateForNewImage([st EXCEPT !.imageFile = file, !.imageUrl = file])
                 EXCEPT !.mode = "loading"],
             "setupCanvas")
    ELSE reset([st EXCEPT !.imageFile = NULL, !.imageUrl = NULL], confirmed)

\* setupCanvas up to the call of createImageBitmap
setupCanvas(st) ==
    IF ~canvasElement(st) \/ st.imageUrl = NULL \/ st.imageFile = NULL THEN st
    ELSE [st EXCEPT !.ctx = TRUE, !.decoding = Append(st.decoding, st.imageFile)]

resetZoomToFit(st) ==
    IF st.imageBitmap = NoObject \/ ~canvasElement(st) \/ st.display.width = 0 \/ st.display.height = 0
    THEN st
    ELSE
    LET imgW == st.imageBitmap.width
        imgH == st.imageBitmap.height
        fit0 == IF imgW > 0 /\ imgH > 0 /\ st.display.width > 0 /\ st.display.height > 0
                THEN RMin(RDiv(R(st.display.width), R(imgW)), RDiv(R(st.display.height), R(imgH)))
                ELSE MIN_ZOOM
        fit  == RMax(MIN_ZOOM, RMin(R(MAX_ZOOM), fit0))
    IN  clampViewCenter([st EXCEPT !.fitScaleValue = fit, !.viewScale = fit,
                                   !.viewCenter = [x |-> RDiv(R(imgW), R(2)),
                                                   y |-> RDiv(R(imgH), R(2))]])

resetZoom(st) ==
    IF st.imageBitmap = NoObject THEN st ELSE redrawCanvas(resetZoomToFit(st))

\* zoom(factor, cX, cY); dCoords is getCanvasDisplayCoords of (cX, cY)
ZoomTo(st, newScale, zoomCenter) ==
    IF newScale = st.viewScale THEN st
    ELSE redrawCanvas(clampViewCenter(
             [st EXCEPT !.viewCenter =
                            [x |-> RSub(zoomCenter.x,
                                        RMul(RSub(zoomCenter.x, st.viewCenter.x),
                                             RDiv(st.viewScale, newScale))),
                             y |-> RSub(zoomCenter.y,
                                        RMul(RSub(zoomCenter.y, st.viewCenter.y),
                                             RDiv(st.viewScale, newScale)))],
                        !.viewScale = newScale]))

ZoomScale(st, factor) ==
    LET newScale == RMax(MIN_ZOOM, RMin(R(MAX_ZOOM), RMul(st.viewScale, factor)))
    IN  IF RLt(newScale, st.fitScaleValue) THEN st.fitScaleValue ELSE newScale

zoom(st, factor, dCoords) ==
    IF \/ st.imageBitmap = NoObject \/ ~canvasElement(st) \/ st.lastViewport = NoObject
       \/ st.display.width <= 0 \/ st.display.height <= 0
    THEN st
    ELSE LET imageCoords == canvasToImageCoords(st, dCoords)
         IN  ZoomTo(st, ZoomScale(st, factor),
                    IF imageCoords # NoObject THEN imageCoords ELSE st.viewCenter)

zoomIn(st, dCoords) == zoom(st, ZOOM_FACTOR, dCoords)
zoomOut(st, dCoords) == zoom(st, RDiv(R(1), ZOOM_FACTOR), dCoords)

\* deltaY is the sign of e.deltaY
handleWheel(st, deltaY, dCoords) ==
    zoom(st, IF -deltaY > 0 THEN ZOOM_FACTOR ELSE RDiv(R(1), ZOOM_FACTOR), dCoords)

\* Math.round of a non-negative rational
Round(q) == (2 * q[1] + q[2]) \div (2 * q[2])

\* buffer size chosen by the .then() callback of setupCanvas: display size times
\* the device pixel ratio, capped to MAX_BUFFER_DIM keeping the aspect ratio
BufferSize(display) ==
    LET w0     == display.width * dpr
        h0     == display.height * dpr
        capped == w0 > MAX_BUFFER_DIM \/ h0 > MAX_BUFFER_DIM
        ratioW == <<MAX_BUFFER_DIM, w0>>
        ratioH == <<MAX_BUFFER_DIM, h0>>
        w1     == Round(RMul(R(w0), RMin(ratioW, ratioH)))
        aspect == <<display.width, display.height>>
        h2     == IF RLt(ratioW, ratioH) THEN Round(RDiv(R(w1), aspect)) ELSE h0
        w2     == IF RLt(ratioW, ratioH) THEN w1 ELSE Round(RMul(R(h0), aspect))
        w      == IF capped THEN w2 ELSE w0
        h      == IF capped THEN h2 ELSE h0
    IN  [width |-> IF w > 1 THEN w ELSE 1, height |-> IF h > 1 THEN h ELSE 1]

\* buffer size handleResize aims at: both sides scaled by the limiting ratio
TargetBufferSize(display) ==
    LET w0     == display.width * dpr
        h0     == display.height * dpr
        capped == w0 > MAX_BUFFER_DIM \/ h0 > MAX_BUFFER_DIM
        ratio  == RMin(RDiv(R(MAX_BUFFER_DIM), R(w0)), RDiv(R(MAX_BUFFER_DIM), R(h0)))
        w      == IF capped THEN Round(RMul(R(w0), ratio)) ELSE w0
        h      == IF capped THEN Round(RMul(R(h0), ratio)) ELSE h0
    IN  [width |-> IF w > 1 THEN w ELSE 1, height |-> IF h > 1 THEN h ELSE 1]

\* handleResize, called by the ResizeObserver of the canvas area
handleResize(st) ==
    IF ~canvasElement(st) \/ st.display.width <= 0 \/ st.display.height <= 0 THEN st
    ELSE IF st.canvas = TargetBufferSize(st.display) THEN st
    ELSE IF st.imageBitmap = NoObject
    THEN [st EXCEPT !.canvas = TargetBufferSize(st.display)]
    ELSE redrawCanvas(resetZoomToFit([st EXCEPT !.canvas = TargetBufferSize(st.display)]))

\* if (groups.length === 0) addNewGroup()
EnsureGroup(st) == IF st.groups = <<>> THEN addNewGroup(st) ELSE st

\* the .then() callback of createImageBitmap in setupCanvas, for the bitmap of `file`
setupCanvasThen(st, file) ==
    IF ~canvasElement(st) \/ ~st.ctx \/ st.display.width <= 0 \/ st.display.height <= 0
    THEN [st EXCEPT !.imageBitmap = [file |-> file, width |-> BitmapOf(file).width,
                                     height |-> BitmapOf(file).height]]
    ELSE [requestAnimationFrame(
              EnsureGroup([st EXCEPT !.imageBitmap = [file |-> file, width |-> BitmapOf(file).width,
                                                      height |-> BitmapOf(file).height],
                                     !.canvas = BufferSize(st.display),
                                     !.viewCenter = [x |-> RDiv(R(BitmapOf(file).width), R(2)),
                                                     y |-> RDiv(R(BitmapOf(file).height), R(2))],
                                     !.viewScale = R(1),
                                     !.lastViewport = NoObject]),
              "resetZoomToFit")
            EXCEPT !.mode = "scaling"]

\* the animation-frame callbacks; resetZoomToFit and redrawCanvas return at
\* once under the conditions the callback of setupCanvas tests before them
RunAnimationFrameCallback(st, cb) ==
    IF cb = "setupCanvas" THEN setupCanvas(st)
    ELSE redrawCanvas(IF cb = "resetZoomToFit" THEN resetZoomToFit(st) ELSE st)

RECURSIVE RunAnimationFrame(_, _)
\* one frame: the callbacks queued before the frame, in order
RunAnimationFrame(st, cbs) ==
    IF cbs = <<>> THEN st
    ELSE RunAnimationFrame(RunAnimationFrameCallback(st, Head(cbs)), Tail(cbs))


\* ------------------------------------------------------------------------
\* Events
\* ------------------------------------------------------------------------
\* Microtasks run to completion before the next event is dispatched.
Idle == s.micro = <<>>
\* A command of the user (a new gesture, a key, a button, an input) arrives
\* after the animation frame requested by the previous one has been rendered.
Ready == Idle /\ s.raf = <<>> /\ click = NoObject
PointerUpState == [down |-> FALSE, at |-> NoObject, moved |-> FALSE, drag |-> "none"]

TotalHoles(st) ==
    LET RECURSIVE Count(_)
        Count(gs) == IF gs = <<>> THEN 0
                     ELSE Len(Head(gs).bulletHolesPixels) + Count(Tail(gs))
    IN  Count(st.groups)

PendingLoads(st) == Len(st.decoding) + Cardinality({i \in 1..Len(st.raf) : st.raf[i] = "setupCanvas"})

\* the drag operation a pointer-down has started
DragKind(st) ==
    IF st.isDraggingInfoBox THEN "infoBox"
    ELSE IF st.isDraggingHole THEN "hole"
    ELSE IF st.isPanning THEN "pan"
    ELSE IF st.isDrawingRefLine THEN "refLine"
    ELSE "none"

\* the component's state as an event finds it: no calculateScale call made yet
Now == [s EXCEPT !.calib = "none"]

FileSelect(f) ==
    /\ Ready /\ ~ptr.down
    /\ PendingLoads(s) < MaxDecoding
    /\ s' = [handleFileSelect(Now, f, TRUE) EXCEPT !.nudges = 0, !.downs = 0]
    /\ UNCHANGED <<ptr, click>>

\* files chosen one after the other in the file input
ReloadFiles == {"a.png", "b.png"}

\* a file selected while the image of an earlier selection may still be decoding
FileReselect(f) ==
    /\ Ready /\ ~ptr.down
    /\ PendingLoads(s) < MaxReloads
    /\ f # s.imageFile
    /\ s' = [handleFileSelect(Now, f, TRUE) EXCEPT !.nudges = 0, !.downs = 0]
    /\ UNCHANGED <<ptr, click>>

FileSelectInvalid(confirmed) ==
    /\ Ready /\ ~ptr.down
    /\ s' = [handleFileSelect(Now, NULL, confirmed) EXCEPT !.nudges = 0, !.downs = 0]
    /\ UNCHANGED <<ptr, click>>

AnimationFrame ==
    /\ Idle /\ s.raf # <<>>
    /\ s' = RunAnimationFrame([Now EXCEPT !.raf = <<>>], s.raf)
    /\ UNCHANGED <<ptr, click>>

DecodeResolve(i) ==
    /\ Idle /\ click = NoObject
    /\ i \in 1..Len(s.decoding)
    /\ s' = setupCanvasThen([Now EXCEPT !.decoding = RemoveAt(s.decoding, i - 1)], s.decoding[i])
    /\ UNCHANGED <<ptr, click>>

DecodeReject(i, confirmed) ==
    /\ Idle /\ click = NoObject
    /\ i \in 1..Len(s.decoding)
    /\ s' = reset([Now EXCEPT !.decoding = RemoveAt(s.decoding, i - 1)], confirmed)
    /\ UNCHANGED <<ptr, click>>

\* pending: how many flag-reset timers of earlier gestures may still be running
PointerDown(p, pending) ==
    /\ Ready /\ ~ptr.down
    /\ canvasElement(s)
    /\ OnCanvas(p)
    /\ s.timers <= pending
    /\ s.downs < MaxPointerDowns
    /\ (s.mode = "placingHoles" => TotalHoles(s) < MaxHoles)
    /\ (s.mode = "placingAim" => p = PosMid)
    /\ s' = [handleCanvasPointerDown(Now, p) EXCEPT !.downs = s.downs + 1]
    /\ ptr' = [down |-> TRUE, at |-> p, moved |-> FALSE, drag |-> DragKind(s')]
    /\ UNCHANGED click

PointerMove(p) ==
    /\ Idle /\ click = NoObject
    /\ s' = handleWindowPointerMove(Now, p)
    /\ ptr' = IF ptr.down THEN [ptr EXCEPT !.moved = TRUE] ELSE ptr
    /\ UNCHANGED click

PointerUp(p) ==
    /\ Idle /\ click = NoObject /\ ptr.down
    /\ s' = [handleWindowPointerUp(Now, p) EXCEPT !.capture = FALSE]
    /\ click' = IF OnCanvas(p) /\ canvasElement(s)
                THEN [pos |-> p, from |-> ptr.at, drag |-> ptr.drag,
                      moved |-> ptr.moved, own |-> WasDragging(s)]
                ELSE NoObject
    /\ ptr' = PointerUpState

\* The pointer is cancelled, or the canvas loses its capture, while it is
\* pressed: the capture is released and no pointer-up follows.  The component
\* listens to pointermove, pointerup and keydown only, so no handler runs.
PointerCancel ==
    /\ Idle /\ click = NoObject /\ ptr.down
    /\ s' = [Now EXCEPT !.capture = FALSE]
    /\ ptr' = PointerUpState
    /\ UNCHANGED click

Click ==
    /\ Idle /\ click # NoObject
    /\ s' = handleCanvasClick(Now, click.pos)
    /\ click' = NoObject
    /\ UNCHANGED ptr

Microtask ==
    /\ s.micro # <<>>
    /\ s' = RunMicrotask([Now EXCEPT !.micro = Tail(s.micro)], Head(s.micro))
    /\ UNCHANGED <<ptr, click>>

\* A flag-reset timer fires 50 ms after the pointer-up that set it.  The click
\* of a pointer-up is dispatched before that pointer-up's own timer is due;
\* timers of earlier pointer-ups may be due at any time.
TimerFires ==
    /\ Idle
    /\ s.timers > (IF click # NoObject /\ click.own THEN 1 ELSE 0)
    /\ s' = FlagResetTimer(Now)
    /\ UNCHANGED <<ptr, click>>

KeyDown(key) ==
    /\ Ready
    /\ (key # "Delete" => s.nudges < MaxNudges)
    /\ s' = handleKeyDown(Now, key)
    /\ UNCHANGED <<ptr, click>>

\* the Delete button of the nudge panel, shown while a hole is selected
DeleteButton ==
    /\ Ready /\ ~ptr.down
    /\ canvasElement(s) /\ s.mode = "selectingHole" /\ s.selectedHoleIndex # NoIndex
    /\ s' = deleteSelectedHole(Now)
    /\ UNCHANGED <<ptr, click>>

ModeButtonClick(button) ==
    /\ Ready /\ ~ptr.down
    /\ canvasElement(s) /\ Truthy(s.scale)
    /\ s' = ModeButton(Now, button)
    /\ UNCHANGED <<ptr, click>>

EnterScaleMode ==
    /\ Ready /\ ~ptr.down
    /\ canvasElement(s) /\ s.imageBitmap # NoObject
    /\ s' = enterScaleMode(Now)
    /\ UNCHANGED <<ptr, click>>

ReferenceLengthInput(len) ==
    /\ Ready /\ ~ptr.down
    /\ canvasElement(s) /\ s.imageBitmap # NoObject
    /\ len # s.referenceLength
    /\ s' = handleReferenceInputChange([Now EXCEPT !.referenceLength = len])
    /\ UNCHANGED <<ptr, click>>

ReferenceUnitChange(unit) ==
    /\ Ready /\ ~ptr.down
    /\ canvasElement(s) /\ s.imageBitmap # NoObject
    /\ unit # s.referenceUnit
    /\ s' = handleReferenceInputChange([Now EXCEPT !.referenceUnit = unit])
    /\ UNCHANGED <<ptr, click>>

TargetDistanceInput(dist) ==
    /\ Ready /\ ~ptr.down
    /\ canvasElement(s)
    /\ dist # s.targetDistance
    /\ s' = handleTargetDistanceChange([Now EXCEPT !.targetDistance = dist])
    /\ UNCHANGED <<ptr, click>>

TargetDistanceUnitChange(unit) ==
    /\ Ready /\ ~ptr.down
    /\ canvasElement(s)
    /\ unit # s.targetDistanceUnit
    /\ s' = handleTargetDistanceChange([Now EXCEPT !.targetDistanceUnit = unit])
    /\ UNCHANGED <<ptr, click>>

ResultUnitChange(unit) ==
    /\ Ready /\ ~ptr.down
    /\ canvasElement(s)
    /\ unit # s.resultDisplayUnit
    /\ s' = handleResultUnitChange([Now EXCEPT !.resultDisplayUnit = unit])
    /\ UNCHANGED <<ptr, click>>

AngularUnitChange(unit) ==
    /\ Ready /\ ~ptr.down
    /\ canvasElement(s)
    /\ unit # s.angularUnitDisplay
    /\ s' = handleAngularUnitChange([Now EXCEPT !.angularUnitDisplay = unit])
    /\ UNCHANGED <<ptr, click>>

AddGroup ==
    /\ Ready /\ ~ptr.down
    /\ canvasElement(s)
    /\ Len(s.groups) < MaxGroups
    /\ s.nextGroupId < MaxGroupIds
    /\ s' = addNewGroup(Now)
    /\ UNCHANGED <<ptr, click>>

SwitchGroup(idx) ==
    /\ Ready /\ ~ptr.down
    /\ canvasElement(s)
    /\ idx \in 0..(Len(s.groups) - 1)
    /\ s' = switchToGroup(Now, idx)
    /\ UNCHANGED <<ptr, click>>

\* the delete button of a group is rendered while there is more than one group
DeleteGroup(idx, confirmed) ==
    /\ Ready /\ ~ptr.down
    /\ canvasElement(s)
    /\ Len(s.groups) > 1
    /\ idx \in 0..(Len(s.groups) - 1)
    /\ s' = deleteGroup(Now, idx, confirmed)
    /\ UNCHANGED <<ptr, click>>

\* deleteGroup called for the only group.  The delete button is not rendered
\* then; the step exercises the branch deleteGroup keeps for the list it has
\* emptied.
DeleteOnlyGroup(confirmed) ==
    /\ Ready /\ ~ptr.down
    /\ canvasElement(s)
    /\ Len(s.groups) = 1
    /\ s.nextGroupId < MaxGroupIds
    /\ s' = deleteGroup(Now, 0, confirmed)
    /\ UNCHANGED <<ptr, click>>

\* the zoom buttons; a click on one carries the position of the button
ZoomInButton ==
    /\ Ready /\ ~ptr.down
    /\ canvasElement(s) /\ s.imageBitmap # NoObject
    /\ RLt(s.viewScale, R(MAX_ZOOM))
    /\ s.zooms < MaxZooms
    /\ s' = [zoomIn(Now, PosButton) EXCEPT !.zooms = s.zooms + 1]
    /\ UNCHANGED <<ptr, click>>

ZoomOutButton ==
    /\ Ready /\ ~ptr.down
    /\ canvasElement(s) /\ s.imageBitmap # NoObject
    /\ RLt(s.fitScaleValue, s.viewScale)
    /\ s.zooms < MaxZooms
    /\ s' = [zoomOut(Now, PosButton) EXCEPT !.zooms = s.zooms + 1]
    /\ UNCHANGED <<ptr, click>>

ResetZoomButton ==
    /\ Ready /\ ~ptr.down
    /\ canvasElement(s) /\ s.imageBitmap # NoObject
    /\ s' = resetZoom(Now)
    /\ UNCHANGED <<ptr, click>>

\* the wheel turned over the canvas area, with the pointer at p
Wheel(deltaY, p) ==
    /\ Ready /\ ~ptr.down
    /\ canvasElement(s)
    /\ OnCanvas(p)
    /\ s.zooms < MaxZooms
    /\ s' = [handleWheel(Now, deltaY, p) EXCEPT !.zooms = s.zooms + 1]
    /\ UNCHANGED <<ptr, click>>

\* the canvas area gets the size d; its ResizeObserver calls handleResize
Resize(d) ==
    /\ Ready /\ ~ptr.down
    /\ canvasElement(s)
    /\ d # s.display
    /\ s' = handleResize([Now EXCEPT !.display = d])
    /\ UNCHANGED <<ptr, click>>

Init ==
    /\ s = InitState
    /\ ptr = PointerUpState
    /\ click = NoObject

\* pointer positions over the image
ImagePositions == {PosTop, PosMid}

\* loading an image: file selection, the animation frame that starts setupCanvas,
\* the decoded bitmap, and the continuations that handlers leave behind
Loading ==
    \/ \E f \in Files : FileSelect(f)
    \/ AnimationFrame
    \/ \E i \in 1..MaxDecoding : DecodeResolve(i)
    \/ Microtask

\* Marking and editing the holes of one group: gestures that are at least
\* 50 ms apart, the keyboard, the mode buttons and the measurement inputs.
Next ==
    \/ Loading
    \/ \E p \in ImagePositions : PointerDown(p, 0)
    \/ \E p \in ImagePositions : PointerMove(p)
    \/ \E p \in ImagePositions : PointerUp(p)
    \/ Click
    \/ TimerFires
    \/ \E k \in Keys : KeyDown(k)
    \/ DeleteButton
    \/ \E b \in {"holes", "aim", "select"} : ModeButtonClick(b)
    \/ EnterScaleMode
    \/ \E len \in RefLengths : ReferenceLengthInput(len)
    \/ \E d \in TargetDistances : TargetDistanceInput(d)

Spec == Init /\ [][Next]_vars

\* Calibration: reference lines drawn on the image or released outside the
\* canvas, changes of the reference length and unit, and several groups.
NextCalibration ==
    \/ Loading
    \/ \E p \in PointerPositions : PointerDown(p, 0)
    \/ \E p \in PointerPositions : PointerMove(p)
    \/ \E p \in PointerPositions : PointerUp(p)
    \/ Click
    \/ TimerFires
    \/ \E b \in {"holes", "aim"} : ModeButtonClick(b)
    \/ EnterScaleMode
    \/ \E len \in RefLengths : ReferenceLengthInput(len)
    \/ \E u \in ReferenceUnits : ReferenceUnitChange(u)
    \/ AddGroup
    \/ \E i \in 0..(MaxGroups - 1) : SwitchGroup(i)

\* The continuation of a tick() runs before any other event.  This is weak
\* fairness of Microtask, WF_vars(Microtask), with ENABLED <<Microtask>>_vars
\* written out: a microtask is due exactly while the queue is not empty.
MicrotasksRun == []<>(s.micro = <<>>) \/ []<><<Microtask>>_vars
SpecCalibration == Init /\ [][NextCalibration]_vars /\ MicrotasksRun

\* Gestures in quick succession: a pointer-down may arrive while flag-reset
\* timers of earlier gestures are still running.
NextClick ==
    \/ Loading
    \/ \E p \in PointerPositions : PointerDown(p, MaxTimers - 1)
    \/ \E p \in PointerPositions : PointerMove(p)
    \/ \E p \in PointerPositions : PointerUp(p)
    \/ Click
    \/ TimerFires
    \/ \E b \in {"pan", "holes", "aim", "select"} : ModeButtonClick(b)
    \/ EnterScaleMode

SpecClick == Init /\ [][NextClick]_vars

\* The same gestures with the event loop doing its work: a queued microtask
\* runs, a click that a pointer-up has produced is dispatched, and a timer that
\* is due fires.  Weak fairness of Click and TimerFires, written out.
ClickDue == Idle /\ click # NoObject
TimerDue == Idle /\ s.timers > (IF click # NoObject /\ click.own THEN 1 ELSE 0)
ClicksRun == []<>(~ClickDue) \/ []<><<Click>>_vars
TimersRun == []<>(~TimerDue) \/ []<><<TimerFires>>_vars
SpecSuppress == Init /\ [][NextClick]_vars /\ MicrotasksRun /\ ClicksRun /\ TimersRun

\* Loading, failing to load and resetting, the list of groups and the target distance.
NextLoad ==
    \/ Loading
    \/ \E c \in BOOLEAN : FileSelectInvalid(c)
    \/ \E i \in 1..MaxDecoding, c \in BOOLEAN : DecodeReject(i, c)
    \/ AddGroup
    \/ \E i \in 0..(MaxGroups - 1) : SwitchGroup(i)
    \/ \E i \in 0..(MaxGroups - 1), c \in BOOLEAN : DeleteGroup(i, c)
    \/ \E d \in TargetDistances : TargetDistanceInput(d)

SpecLoad == Init /\ [][NextLoad]_vars

\* The list of groups: groups added, switched to and deleted, with holes
\* marked in them.
NextGroups ==
    \/ Loading
    \/ \E p \in ImagePositions : PointerDown(p, 0)
    \/ \E p \in ImagePositions : PointerUp(p)
    \/ Click
    \/ TimerFires
    \/ \E b \in {"holes", "select"} : ModeButtonClick(b)
    \/ AddGroup
    \/ \E i \in 0..(MaxGroups - 1) : SwitchGroup(i)
    \/ \E i \in 0..(MaxGroups - 1), c \in BOOLEAN : DeleteGroup(i, c)
    \/ \E c \in BOOLEAN : DeleteOnlyGroup(c)

SpecGroups == Init /\ [][NextGroups]_vars

\* Editing several groups: calibration, holes and aiming points placed,
\* selected, nudged and deleted, mode changes, and groups added, switched to
\* and deleted.
NextEdit ==
    \/ Loading
    \/ \E p \in ImagePositions : PointerDown(p, 0)
    \/ \E p \in ImagePositions : PointerUp(p)
    \/ Click
    \/ TimerFires
    \/ \E k \in Keys : KeyDown(k)
    \/ DeleteButton
    \/ \E b \in {"holes", "aim", "select"} : ModeButtonClick(b)
    \/ AddGroup
    \/ \E i \in 0..(MaxGroups - 1) : SwitchGroup(i)
    \/ \E i \in 0..(MaxGroups - 1), c \in BOOLEAN : DeleteGroup(i, c)

SpecEdit == Init /\ [][NextEdit]_vars

\* Gestures that end in a pointer-up or in the loss of the pointer.
NextCancel ==
    \/ Loading
    \/ \E p \in ImagePositions : PointerDown(p, 0)
    \/ \E p \in ImagePositions : PointerMove(p)
    \/ \E p \in ImagePositions : PointerUp(p)
    \/ PointerCancel
    \/ Click
    \/ TimerFires
    \/ \E b \in {"pan", "holes", "select"} : ModeButtonClick(b)
    \/ EnterScaleMode

SpecCancel == Init /\ [][NextCancel]_vars

\* Gestures and clicks on the image and on the padding around it.
PaddingPositions == {PosTop, PosMid, PosPad}
NextPadding ==
    \/ Loading
    \/ \E p \in PaddingPositions : PointerDown(p, 0)
    \/ \E p \in PaddingPositions : PointerMove(p)
    \/ \E p \in PaddingPositions : PointerUp(p)
    \/ Click
    \/ TimerFires
    \/ \E b \in {"pan", "holes", "aim", "select"} : ModeButtonClick(b)
    \/ EnterScaleMode

SpecPadding == Init /\ [][NextPadding]_vars

\* Gestures on the marks and on the info boxes beside them.
InfoBoxPositions == {PosTop, PosMid, PosBox, PosBoxPad}
NextInfoBox ==
    \/ Loading
    \/ \E p \in InfoBoxPositions : PointerDown(p, 0)
    \/ \E p \in InfoBoxPositions : PointerMove(p)
    \/ \E p \in InfoBoxPositions : PointerUp(p)
    \/ Click
    \/ TimerFires
    \/ \E b \in {"pan", "holes", "aim", "select"} : ModeButtonClick(b)
    \/ EnterScaleMode

SpecInfoBox == Init /\ [][NextInfoBox]_vars

\* The measurement inputs: reference length and unit, target distance and
\* unit, and the units the results are shown in, with marks on the image.
NextInputs ==
    \/ Loading
    \/ \E p \in ImagePositions : PointerDown(p, 0)
    \/ \E p \in ImagePositions : PointerUp(p)
    \/ Click
    \/ TimerFires
    \/ \E b \in {"holes", "aim"} : ModeButtonClick(b)
    \/ \E len \in RefLengths : ReferenceLengthInput(len)
    \/ \E u \in ReferenceUnits : ReferenceUnitChange(u)
    \/ \E d \in TargetDistances : TargetDistanceInput(d)
    \/ \E u \in DistanceUnits : TargetDistanceUnitChange(u)
    \/ \E u \in ResultUnits : ResultUnitChange(u)
    \/ \E u \in AngularUnits : AngularUnitChange(u)

SpecInputs == Init /\ [][NextInputs]_vars

\* Selecting another file while an image is decoding: the decodings resolve
\* in either order, and the image is calibrated and marked in between.
NextReload ==
    \/ \E f \in ReloadFiles : FileReselect(f)
    \/ AnimationFrame
    \/ \E i \in 1..MaxReloads : DecodeResolve(i)
    \/ Microtask
    \/ \E p \in ImagePositions : PointerDown(p, 0)
    \/ \E p \in ImagePositions : PointerMove(p)
    \/ \E p \in ImagePositions : PointerUp(p)
    \/ Click
    \/ TimerFires

SpecReload == Init /\ [][NextReload]_vars

\* The info boxes: marks placed, nudged, dragged and deleted, the aiming point
\* set, groups added and switched to, the scale set and its reference length
\* changed, and the boxes dragged.
NextAnchor ==
    \/ Loading
    \/ \E p \in {PosMid, PosBox} : PointerDown(p, 0)
    \/ \E p \in {PosMid, PosBox} : PointerMove(p)
    \/ \E p \in {PosMid, PosBox} : PointerUp(p)
    \/ Click
    \/ TimerFires
    \/ \E k \in Keys : KeyDown(k)
    \/ DeleteButton
    \/ \E b \in {"pan", "holes", "aim", "select"} : ModeButtonClick(b)
    \/ EnterScaleMode
    \/ \E len \in {1, 2} : ReferenceLengthInput(len)
    \/ AddGroup
    \/ \E i \in 0..(MaxGroups - 1) : SwitchGroup(i)

SpecAnchor == Init /\ [][NextAnchor]_vars

\* The view: zooming with the buttons and the wheel, resetting the zoom,
\* resizing the canvas area, and panning once the image is calibrated.
NextView ==
    \/ Loading
    \/ \E p \in ImagePositions : PointerDown(p, 0)
    \/ \E p \in ImagePositions : PointerMove(p)
    \/ \E p \in ImagePositions : PointerUp(p)
    \/ Click
    \/ TimerFires
    \/ ModeButtonClick("pan")
    \/ ZoomInButton
    \/ ZoomOutButton
    \/ ResetZoomButton
    \/ \E deltaY \in {-1, 1}, p \in {PosMid, PosFar} : Wheel(deltaY, p)
    \/ \E d \in DisplaySizes : Resize(d)

SpecView == Init /\ [][NextView]_vars

\* The calibration scenario: the scan "target.png" fitted to the canvas at
\* 0.4 display pixels per image pixel, and the pointer over the image
\* pixels (0, 0), (200, 0) and (300, 400).
ScenarioPositions == {Pt(0, 0), Pt(80, 0), Pt(120, 160)}

NextScenario ==
    \/ FileSelect("target.png")
    \/ AnimationFrame
    \/ \E i \in 1..MaxDecoding : DecodeResolve(i)
    \/ Microtask
    \/ \E p \in ScenarioPositions : PointerDown(p, 0)
    \/ \E p \in ScenarioPositions : PointerMove(p)
    \/ \E p \in ScenarioPositions : PointerUp(p)
    \/ Click
    \/ TimerFires
    \/ \E len \in RefLengths : ReferenceLengthInput(len)

SpecScenario == Init /\ [][NextScenario]_vars

\* ------------------------------------------------------------------------
\* Group statistics as a function of the holes
\* ------------------------------------------------------------------------
MaxResultHoles == 3
\* pixel positions of the marked holes, inside the image
ResultPixels == {Pt(0, 0), Pt(40, 0), Pt(40, 30), Pt(10, 20)}
HoleLists == UNION {[1..n -> ResultPixels] : n \in 0..MaxResultHoles}

\* aiming points of the marked group: none, or one inside the image
ResultAims == {NoObject, Pt(40, 30), Pt(20, 0)}

\* the state after loading the image, calibrating 20 pixels per inch, setting
\* the target distance dist and marking the holes hs and the aiming point aim
\* in the first group, before their statistics are computed
MarkedState(hs, aim, dist) ==
    LET Real(p) == ToReal(p, NInt(20))
    IN  redrawCanvas(resetZoomToFit(
            [InitState EXCEPT
                !.imageFile = "a.png", !.imageUrl = "a.png", !.ctx = TRUE,
                !.imageBitmap = [file |-> "a.png", width |-> Bitmap.width,
                                 height |-> Bitmap.height],
                !.canvas = BufferSize(Display), !.mode = "placingHoles", !.scale = NInt(20),
                !.referenceLength = 2, !.targetDistance = dist,
                !.refLineStart = Pt(40, 0), !.refLineEnd = Pt(40, 40),
                !.groups = <<[NewGroup(0) EXCEPT
                                 !.bulletHolesPixels = hs,
                                 !.bulletHolesReal = SeqMap(Real, hs),
                                 !.aimingPointPixels = aim,
                                 !.aimingPointReal = IF aim = NoObject THEN NoObject
                                                     ELSE Real(aim)]>>,
                !.activeGroupIndex = 0, !.nextGroupId = 1,
                !.selectedHoleIndex = IF hs = <<>> THEN NoIndex ELSE Len(hs) - 1]))

\* the state when the continuation of deleteSelectedHole is about to run:
\* the selected (last) hole of a group with computed statistics was removed
HoleDeleted(st) ==
    [deleteSelectedHole(calculateGroupResults(st, 0)) EXCEPT !.micro = <<>>]

InitResults ==
    /\ \E hs \in HoleLists, aim \in ResultAims, dist \in TargetDistances :
           \/ s = MarkedState(hs, aim, dist)
           \/ Len(hs) \in 1..2 /\ s = HoleDeleted(MarkedState(hs, aim, dist))
    /\ ptr = PointerUpState
    /\ click = NoObject

\* the continuation of handleCanvasClick after the hole was appended
CalculateResults ==
    /\ ~At(s.groups, 0).resultsValid
    /\ s' = calculateGroupResults(Now, 0)
    /\ UNCHANGED <<ptr, click>>

NextResults == CalculateResults

SpecResults == InitResults /\ [][NextResults]_vars

\* ------------------------------------------------------------------------
\* Properties
\* ------------------------------------------------------------------------
Groups == {s.groups[k] : k \in DOMAIN s.groups}

\* the marks the user placed: per group, the holes and the aiming point in pixels
Marks(st) == [k \in DOMAIN st.groups |->
                 <<st.groups[k].bulletHolesPixels, st.groups[k].aimingPointPixels>>]

\* what a calibration computes for the groups: real coordinates, results,
\* resultsValid and the info-box anchor
Derived(st) == [k \in DOMAIN st.groups |->
                   [st.groups[k] EXCEPT !.bulletHolesPixels = <<>>, !.aimingPointPixels = NoObject,
                                        !.infoBoxSize = NoObject]]

\* real = pixel / scale, stated as real * scale = pixel
IsPixelOverScale(real, pixel, sc) ==
    /\ NMul(real.x, sc) = NRat(pixel.x)
    /\ NMul(real.y, sc) = NRat(pixel.y)

RealsMatchPixels(g, sc) ==
    /\ Len(g.bulletHolesReal) = Len(g.bulletHolesPixels)
    /\ \A i \in DOMAIN g.bulletHolesPixels :
           IsPixelOverScale(g.bulletHolesReal[i], g.bulletHolesPixels[i], sc)
    /\ IF g.aimingPointPixels # NoObject
       THEN /\ g.aimingPointReal # NoObject
            /\ IsPixelOverScale(g.aimingPointReal, g.aimingPointPixels, sc)
       ELSE g.aimingPointReal = NoObject

\* C1: while an image bitmap is loaded, the list of groups is not empty.
GroupsNonEmptyWhileLoaded == s.imageBitmap # NoObject => s.groups # <<>>

\* C2: while the scale is set, a group whose results are valid holds exactly
\* the centroid, mean radius, maximum spread, angular values and offset from
\* the aiming point that calculateGroupResults computes from its current
\* holes, aiming point, scale and target distance.
NoStaleResults ==
    Truthy(s.scale) => \A g \in Groups : g.resultsValid => g = GroupResults(s, g)

\* results are valid for two holes after one of them was nudged
NoStaleResultsWitness ==
    /\ Truthy(s.scale)
    /\ s.nudges = 1
    /\ \E g \in Groups : g.resultsValid /\ Len(g.bulletHolesReal) = 2 /\ g.maxSpreadMOA # NoNumber

ScaleSetInMarkingModes ==
    s.mode \in {"placingHoles", "placingAim", "selectingHole"} => s.scale # NoNumber

\* C5: after a rejected calibration attempt, made by the pointer-up that
\* ends a reference line or by a change of the reference length or unit, the
\* mode is scaling.
RejectedCalibrationEndsInScaling ==
    s.calib \in {"rejected", "noLine"} => s.mode = "scaling"

\* C6: a step whose calibration attempt is rejected leaves the scale as it
\* was and changes no group's real coordinates, results, resultsValid or
\* info-box anchor.
RejectedCalibrationChangesNothing ==
    [][s'.calib = "rejected" => s'.scale = s.scale /\ Derived(s') = Derived(s)]_vars

\* C7: the click that follows the pointer-up of a drag (pan, reference line,
\* hole drag, info-box drag) places no hole, sets no aiming point and changes
\* no selection, whenever the flag-reset timers of earlier drags fire.
ClickAfterDragIgnored ==
    [][(click # NoObject /\ click' = NoObject /\ click.drag # "none")
          => Marks(s') = Marks(s) /\ s'.selectedHoleIndex = s.selectedHoleIndex]_vars

\* C8: in the modes placingHoles and placingAim the click that ends a
\* pointer-down, pointer-move, pointer-up sequence that travelled across the
\* canvas appends no hole and sets no aiming point.
DraggedClickPlacesNothing ==
    [][(/\ click # NoObject /\ click' = NoObject
        /\ s.mode \in {"placingHoles", "placingAim"}
        /\ click.moved /\ click.from # click.pos)
          => Marks(s') = Marks(s)]_vars

\* every group holds real coordinates for the scale, no valid results and no anchor
FreshlyCalibrated ==
    /\ Truthy(s.scale)
    /\ \A g \in Groups :
           RealsMatchPixels(g, s.scale) /\ ~g.resultsValid /\ g.infoBoxAnchorImage = NoObject

\* every group with a hole holds valid results computed from the scale
AllRecomputed ==
    /\ Truthy(s.scale)
    /\ \A g \in Groups :
           Len(g.bulletHolesReal) >= 1 => g.resultsValid /\ g = GroupResults(s, g)

\* the result fields of a group
ResultsOf(g) ==
    <<g.resultsValid, g.centroidReal, g.meanRadius, g.maxSpread, g.meanRadiusMOA,
      g.meanRadiusMRAD, g.maxSpreadMOA, g.maxSpreadMRAD, g.offsetFromAim>>

\* the groups gs hold, for every group of st with a hole, valid results
\* computed from the scale and the real coordinates of st
RecomputedFrom(st, gs) ==
    /\ Len(gs) = Len(st.groups)
    /\ \A i \in 1..Len(st.groups) :
           Len(st.groups[i].bulletHolesReal) >= 1 =>
               /\ gs[i].resultsValid
               /\ ResultsOf(gs[i]) = ResultsOf(GroupResults(st, st.groups[i]))

\* C9: right after a successful calculateScale every group's real
\* coordinates are the pixel coordinates divided by the new scale, its
\* results are invalid and its info-box anchor is null; the next step keeps
\* that scale and eventually every group with a hole has valid results
\* computed from it.
CalibrationRecomputesAll ==
    /\ [](s.calib = "ok" => FreshlyCalibrated)
    /\ [][s.calib = "ok" => s'.scale = s.scale /\ RecomputedFrom(s, s'.groups)]_vars
    /\ ((s.calib = "ok") ~> AllRecomputed)

\* a re-calibration while two groups hold a hole each
CalibrationRecomputesAllWitness ==
    /\ s.calib = "ok"
    /\ Len(s.groups) = 2
    /\ \A g \in Groups : Len(g.bulletHolesReal) >= 1

RECURSIVE SumOver(_, _)
\* the sum of F(i) over the indices i in I
SumOver(F(_), I) ==
    IF I = {} THEN NZero
    ELSE LET i == CHOOSE x \in I : TRUE IN NAdd(F(i), SumOver(F, I \ {i}))

\* the square of the Euclidean distance of a and b, a rational
DistanceSq(a, b) ==
    NToRat(NAdd(NMul(NSub(a.x, b.x), NSub(a.x, b.x)), NMul(NSub(a.y, b.y), NSub(a.y, b.y))))
Distance(a, b) == RSqrt(DistanceSq(a, b))

MeanPoint(hs) ==
    LET X(i) == hs[i].x
        Y(i) == hs[i].y
    IN  [x |-> NScale(SumOver(X, DOMAIN hs), <<1, Len(hs)>>),
         y |-> NScale(SumOver(Y, DOMAIN hs), <<1, Len(hs)>>)]

MeanDistance(hs, c) ==
    LET D(i) == Distance(hs[i], c)
    IN  NScale(SumOver(D, DOMAIN hs), <<1, Len(hs)>>)

\* d is the largest distance between two holes of hs
IsMaxPairDistance(hs, d) ==
    /\ \E i, j \in DOMAIN hs : i < j /\ Distance(hs[i], hs[j]) = d
    /\ \A i, j \in DOMAIN hs : RLe(DistanceSq(hs[i], hs[j]), NToRat(NMul(d, d)))

ResultsAreDefinitions(g, hs) ==
    /\ g.centroidReal = MeanPoint(hs)
    /\ g.meanRadius = MeanDistance(hs, MeanPoint(hs))
    /\ Len(hs) >= 2 => IsMaxPairDistance(hs, g.maxSpread)
    /\ (\A i \in DOMAIN hs : hs[i] = hs[1]) =>
           g.meanRadius = NZero /\ (Len(hs) >= 2 => g.maxSpread = NZero)
    /\ Len(hs) = 2 =>
           /\ g.maxSpread = Distance(hs[1], hs[2])
           /\ g.meanRadius = NScale(Distance(hs[1], hs[2]), <<1, 2>>)

\* C10: for a group with at least one hole, a call of calculateGroupResults
\* (every step of the specification is one, on the first group) yields the
\* arithmetic mean of the holes as centroid, the mean Euclidean distance of
\* the holes from it as meanRadius and, for two or more holes, the largest
\* distance between two holes as maxSpread; identical holes give 0 and 0, two
\* holes give their distance and half their distance.
ResultsFollowDefinitions ==
    [][Len(s.groups[1].bulletHolesReal) >= 1 =>
          /\ s'.groups[1].resultsValid
          /\ ResultsAreDefinitions(s'.groups[1], s.groups[1].bulletHolesReal)]_vars

\* the results of three holes that are not all the same
ResultsFollowDefinitionsWitness ==
    \E g \in Groups :
        /\ g.resultsValid
        /\ Len(g.bulletHolesReal) = 3
        /\ g.bulletHolesReal[1] # g.bulletHolesReal[2]
        /\ g.bulletHolesReal[1].x # g.bulletHolesReal[3].x

\* every result field of g is null
NoResults(g) ==
    /\ g.centroidReal = NoObject /\ g.offsetFromAim = NoObject
    /\ g.meanRadius = NoNumber /\ g.maxSpread = NoNumber
    /\ g.meanRadiusMOA = NoNumber /\ g.meanRadiusMRAD = NoNumber
    /\ g.maxSpreadMOA = NoNumber /\ g.maxSpreadMRAD = NoNumber

\* the results calculateGroupResults leaves in after, for the group before
AbsentNotZero(before, after) ==
    /\ Len(before.bulletHolesReal) = 0 => NoResults(after) /\ ~after.resultsValid
    /\ Len(before.bulletHolesReal) = 1 =>
           /\ after.resultsValid
           /\ after.meanRadius = NZero
           /\ after.maxSpread = NoNumber
           /\ after.maxSpreadMOA = NoNumber /\ after.maxSpreadMRAD = NoNumber
    /\ after.offsetFromAim = NoObject
           <=> (before.aimingPointReal = NoObject \/ Len(before.bulletHolesReal) = 0)

\* C11: calculateGroupResults leaves the result fields that do not apply
\* null, never zero: with no hole every result field is null and
\* resultsValid is false; with one hole resultsValid is true, meanRadius is 0
\* and maxSpread and its angular values are null; offsetFromAim is null
\* exactly when the group has no aiming point or no hole.
AbsentResultsAreNull ==
    [][AbsentNotZero(s.groups[1], s'.groups[1])]_vars

\* statistics computed for one hole and an aiming point at a target distance
AbsentResultsAreNullWitness ==
    /\ s.targetDistance > 0
    /\ Len(s.groups[1].bulletHolesReal) = 1
    /\ s.groups[1].resultsValid
    /\ s.groups[1].offsetFromAim # NoObject
    /\ s.groups[1].meanRadiusMOA # NoNumber

\* the reference line is complete and 200 image pixels long, and the
\* reference length is 2
ScenarioLine ==
    /\ s.refLineStart # NoObject /\ s.refLineEnd # NoObject /\ ~s.isDrawingRefLine
    /\ PxDistSq(s.refLineStart, s.refLineEnd) = R(200 * 200)
    /\ s.referenceLength = 2

\* C12: a reference line of 200 pixels with referenceLength = 2 gives a
\* scale of 100 pixels per unit; two holes then placed at the image pixels
\* (0, 0) and (300, 400) have the real coordinates (0, 0) and (3, 4), and
\* the group's maxSpread is 5 and its meanRadius 2.5.
CalibrationScenario ==
    ScenarioLine =>
        /\ s.scale = NInt(100)
        /\ \A g \in Groups :
               g.bulletHolesPixels = <<Pt(0, 0), Pt(300, 400)>> =>
                   /\ g.bulletHolesReal = <<[x |-> NInt(0), y |-> NInt(0)],
                                            [x |-> NInt(3), y |-> NInt(4)]>>
                   /\ g.resultsValid =>
                          g.maxSpread = NInt(5) /\ g.meanRadius = NRat(<<5, 2>>)

\* the scenario played to its end
CalibrationScenarioWitness ==
    /\ ScenarioLine
    /\ \E g \in Groups :
           /\ g.bulletHolesPixels = <<Pt(0, 0), Pt(300, 400)>>
           /\ g.resultsValid /\ g.maxSpread = NInt(5)

\* the four angular fields of g are null
NoAngularValues(g) ==
    /\ g.meanRadiusMOA = NoNumber /\ g.meanRadiusMRAD = NoNumber
    /\ g.maxSpreadMOA = NoNumber /\ g.maxSpreadMRAD = NoNumber

\* (len in metres / distance in metres) x 1000, for len in the reference unit
\* and the distance dist in the target-distance unit
MradAt(len, dist) ==
    NScale(convertUnits(len, s.referenceUnit, "meters"),
           RDiv(R(1000), RMul(R(dist), UnitInMeters(s.targetDistanceUnit))))

\* a is strictly smaller than b, both positive multiples of the same sum of roots
StrictlySmaller(a, b) ==
    /\ NRads(a) = NRads(b)
    /\ \A r \in NRads(b) : RLt(R(0), NCoef(a, r)) /\ RLt(NCoef(a, r), NCoef(b, r))

\* the angular values of the linear size len shrink when the target is moved away
FartherIsSmaller(len) ==
    (len # NoNumber /\ len # NZero) =>
        \A d1, d2 \in {50, 100, 200} :
            d1 < d2 => /\ StrictlySmaller(MradAt(len, d2), MradAt(len, d1))
                       /\ StrictlySmaller(mrad2moa(MradAt(len, d2)), mrad2moa(MradAt(len, d1)))

\* C13: for every group with valid results, with targetDistance > 0 each
\* mrad value is (linear size in metres / target distance in metres) x 1000,
\* and a larger target distance gives a strictly smaller mrad and MOA value
\* for the same linear size; with targetDistance <= 0 the four angular
\* fields are null, also after the target distance input was changed.
AngularValues ==
    \A g \in Groups :
        g.resultsValid =>
            IF s.targetDistance > 0
            THEN /\ g.meanRadiusMRAD = MradAt(g.meanRadius, s.targetDistance)
                 /\ g.maxSpread # NoNumber =>
                        g.maxSpreadMRAD = MradAt(g.maxSpread, s.targetDistance)
                 /\ FartherIsSmaller(g.meanRadius) /\ FartherIsSmaller(g.maxSpread)
            ELSE NoAngularValues(g)

\* the same, while a scale is set
AngularValuesWhileCalibrated == Truthy(s.scale) => AngularValues

\* the click waiting to be dispatched is handled as a selection click at the
\* image point the pointer is over
SelectionClick ==
    /\ click # NoObject
    /\ s.mode = "selectingHole" /\ ~s.ignoreNextClick
    /\ s.activeGroupIndex # -1
    /\ canvasToImageCoords(s, click.pos) # NoObject

\* the square of the selection tolerance, 15 device pixels of the buffer, in image pixels
ToleranceSq ==
    LET tol == RMul(RDiv(R(15 * dpr), R(s.canvas.width)), s.lastViewport.sWidth)
    IN  RMul(tol, tol)

\* the index (from 0) the selection click at image point p selects among holes
SelectedBy(holes, p, tolSq) ==
    LET near == {k \in 1..Len(holes) : RLt(PxDistSq(p, holes[k]), tolSq)}
        Closer(k, j) == \/ RLt(PxDistSq(p, holes[k]), PxDistSq(p, holes[j]))
                        \/ PxDistSq(p, holes[k]) = PxDistSq(p, holes[j]) /\ k >= j
    IN  IF near = {} THEN NoIndex
        ELSE (CHOOSE k \in near : \A j \in near : Closer(k, j)) - 1

\* C14: a selection click in mode selectingHole selects the hole of the
\* active group closest to the click among those within the tolerance, the
\* one with the higher index when two are equally close, and clears the
\* selection when no hole is within the tolerance.
SelectionClickSelectsClosest ==
    [][(SelectionClick /\ click' = NoObject) =>
          s'.selectedHoleIndex =
              SelectedBy(At(s.groups, s.activeGroupIndex).bulletHolesPixels,
                         canvasToImageCoords(s, click.pos), ToleranceSq)]_vars

\* the same for the selection clicks made while a scale is set
CalibratedSelectionClickSelectsClosest ==
    [][(SelectionClick /\ click' = NoObject /\ Truthy(s.scale)) =>
          s'.selectedHoleIndex =
              SelectedBy(At(s.groups, s.activeGroupIndex).bulletHolesPixels,
                         canvasToImageCoords(s, click.pos), ToleranceSq)]_vars

\* the pixel point p lies on the loaded image
InsideImage(p) ==
    /\ s.imageBitmap # NoObject
    /\ RLe(R(0), p.x) /\ RLe(p.x, R(s.imageBitmap.width))
    /\ RLe(R(0), p.y) /\ RLe(p.y, R(s.imageBitmap.height))

IdsIncrease ==
    /\ \A i \in 1..Len(s'.groups) :
           (\A j \in 1..Len(s.groups) : s.groups[j].id # s'.groups[i].id)
               => s'.groups[i].id >= s.nextGroupId
    /\ s'.nextGroupId >= s.nextGroupId

\* C19: group ids are never reused.  Every id in the list is below the
\* counter nextGroupId the next id is drawn from, no two groups of the list
\* share an id, a group that joins the list has an id above every id handed
\* out before, and the counter never decreases, so that an id handed out
\* once, also to a group deleted since, is never handed out again.
GroupIdsNeverReused ==
    /\ [](\A g \in Groups : g.id < s.nextGroupId)
    /\ [](\A i, j \in 1..Len(s.groups) : i # j => s.groups[i].id # s.groups[j].id)
    /\ [][IdsIncrease]_vars

\* C20: deleteGroup, confirmed, for the only group leaves exactly one
\* group; that group is new (another id, no hole, no aiming point, no valid
\* results, no info-box anchor) and active, and no hole is selected.
DeletingOnlyGroupLeavesNewGroup ==
    [][(Len(s.groups) = 1 /\ s' = deleteGroup(Now, 0, TRUE)) =>
          /\ Len(s'.groups) = 1
          /\ s'.groups[1] = NewGroup(s'.groups[1].id)
          /\ s'.groups[1].id # s.groups[1].id
          /\ s'.activeGroupIndex = 0
          /\ s'.selectedHoleIndex = NoIndex]_vars

\* the only group was deleted in selection mode: the list holds one empty
\* group, which is not the first group created for the image
DeletingOnlyGroupLeavesNewGroupWitness ==
    /\ Len(s.groups) = 1 /\ s.groups[1].id = 1 /\ s.nextGroupId = 2
    /\ s.groups[1] = NewGroup(1)
    /\ s.mode = "selectingHole" /\ s.selectedHoleIndex = NoIndex

\* C15: the source rectangle cached in lastViewport lies inside the image
\* and is at least one pixel wide and high: sx >= 0, sy >= 0, sWidth >= 1,
\* sHeight >= 1, sx + sWidth <= image width, sy + sHeight <= image height,
\* whatever pan, zoom, resize and reset-zoom did to viewCenter and viewScale.
InsideImageRect(vp, img) ==
    /\ RLe(R(0), vp.sx) /\ RLe(R(0), vp.sy)
    /\ RLe(R(1), vp.sWidth) /\ RLe(R(1), vp.sHeight)
    /\ RLe(RAdd(vp.sx, vp.sWidth), R(img.width))
    /\ RLe(RAdd(vp.sy, vp.sHeight), R(img.height))

ViewportInsideImage ==
    (s.lastViewport # NoObject /\ s.imageBitmap # NoObject)
        => InsideImageRect(s.lastViewport, s.imageBitmap)

\* a zoomed-in view, panned or zoomed away from the centre of the image, on a
\* canvas that has been resized
ViewportInsideImageWitness ==
    /\ s.lastViewport # NoObject /\ s.imageBitmap # NoObject
    /\ s.display # Display
    /\ RLt(s.fitScaleValue, s.viewScale)
    /\ s.viewCenter.x # RDiv(R(s.imageBitmap.width), R(2))
    /\ s.lastViewport = calculateViewport(s)

\* C16: an image point P of the source rectangle, mapped to the rendering
\* buffer by imageToCanvasCoords, from buffer to display coordinates by the
\* ratio of the two sizes, and back by canvasToImageCoords, is P again, for
\* every letterbox and every buffer and display size redrawCanvas has left.
BufferToDisplay(st, b) ==
    [x |-> RMul(RDiv(b.x, R(st.canvas.width)), R(st.display.width)),
     y |-> RMul(RDiv(b.y, R(st.canvas.height)), R(st.display.height))]

RoundTrip(st, P) ==
    canvasToImageCoords(st, BufferToDisplay(st, imageToCanvasCoords(st, P)))

\* points of the source rectangle: its corners, points on its edges and a
\* point inside it
Fractions == {<<0, 1>>, <<1, 3>>, <<1, 1>>}
SourcePoints(vp) ==
    {[x |-> RAdd(vp.sx, RMul(a, vp.sWidth)), y |-> RAdd(vp.sy, RMul(b, vp.sHeight))] :
        a \in Fractions, b \in Fractions}

TransformsRoundTrip ==
    (s.lastViewport # NoObject /\ s.imageBitmap # NoObject)
        => \A P \in SourcePoints(s.lastViewport) : RoundTrip(s, P) = P

\* a zoomed-in view drawn with a letterbox margin into a buffer that is not
\* the display size times the device pixel ratio
TransformsRoundTripWitness ==
    /\ s.lastViewport # NoObject /\ s.imageBitmap # NoObject
    /\ s.canvas.width # s.display.width * dpr
    /\ RLt(R(0), s.letterboxParams.dx)
    /\ RLt(R(0), s.lastViewport.sy)
    /\ \A P \in SourcePoints(s.lastViewport) : RoundTrip(s, P) = P

\* C17: while an image is loaded and displayed, fitScale <= viewScale <=
\* MAX_ZOOM, after any zoom-in, zoom-out, wheel, reset-zoom and resize events;
\* fitScale is min(displayWidth / imageWidth, displayHeight / imageHeight)
\* for the current display size, clamped to [MIN_ZOOM, MAX_ZOOM].
FitScale(display, img) ==
    RMax(MIN_ZOOM,
         RMin(R(MAX_ZOOM),
              RMin(RDiv(R(display.width), R(img.width)),
                   RDiv(R(display.height), R(img.height)))))

\* the image has been decoded and the frame that follows has fitted it
LoadedAndDisplayed ==
    /\ s.imageBitmap # NoObject /\ s.lastViewport # NoObject
    /\ \A i \in 1..Len(s.raf) : s.raf[i] # "resetZoomToFit"

ZoomWithinLimits ==
    LoadedAndDisplayed =>
        /\ RLe(FitScale(s.display, s.imageBitmap), s.viewScale)
        /\ RLe(s.viewScale, R(MAX_ZOOM))

\* the same while the buffer is the display size times the device pixel
\* ratio, below MAX_BUFFER_DIM
ZoomWithinLimitsUncapped ==
    (s.display.width * dpr <= MAX_BUFFER_DIM /\ s.display.height * dpr <= MAX_BUFFER_DIM)
        => ZoomWithinLimits

\* C21: a mutation (hole placed, aiming point set, hole nudged, hole
\* deleted, calibration) changes the active group only, and the step after
\* it is the continuation of its tick(): no other event comes between, the
\* continuation recomputes the group that was mutated, and the mode it writes
\* replaces the mode the mutation was made in.
GroupContinuations == {"calculateGroupResults", "placingAim"}
ContinuationPending(st) == st.micro # <<>> /\ Head(st.micro) \in GroupContinuations
OthersUnchanged(before, after, a) ==
    /\ Len(after) = Len(before)
    /\ \A i \in 1..Len(before) : i # a + 1 => after[i] = before[i]

MutationThenRecompute ==
    /\ s.micro # <<>> =>
           /\ s' = RunMicrotask([Now EXCEPT !.micro = Tail(s.micro)], Head(s.micro))
           /\ UNCHANGED <<ptr, click>>
    /\ (s.micro = <<>> /\ ContinuationPending(s')) =>
           /\ s'.activeGroupIndex = s.activeGroupIndex
           /\ OthersUnchanged(s.groups, s'.groups, s.activeGroupIndex)
           /\ ~s'.groups[s.activeGroupIndex + 1].resultsValid
    /\ ContinuationPending(s) =>
           /\ s'.activeGroupIndex = s.activeGroupIndex
           /\ Len(s'.groups) = Len(s.groups)
           /\ \A i \in 1..Len(s.groups) :
                  ResultsOf(s'.groups[i]) =
                      IF i = s.activeGroupIndex + 1 /\ Truthy(s.scale)
                      THEN ResultsOf(GroupResults(s, s.groups[i]))
                      ELSE ResultsOf(s.groups[i])
    /\ (s.micro # <<>> /\ Head(s.micro) = "placingAim") =>
           s.mode = "placingAim" /\ s'.mode = "placingHoles"
    /\ (s.micro # <<>> /\ Head(s.micro) = "calculateScale") =>
           RecomputedFrom(s, s'.groups)

RecomputeBeforeNextEvent == [][MutationThenRecompute]_vars

\* the second group was mutated and recomputed while the first holds a hole
RecomputeBeforeNextEventWitness ==
    /\ s.micro = <<>> /\ Len(s.groups) = 2 /\ s.activeGroupIndex = 1
    /\ Len(s.groups[1].bulletHolesPixels) = 1
    /\ Len(s.groups[2].bulletHolesPixels) = 1
    /\ s.groups[1].resultsValid /\ s.groups[2].resultsValid

\* C22: while the pointer is not pressed, be it after a pointer-up or after
\* the loss of the capture, no drag flag (isPanning, isDraggingInfoBox,
\* isDraggingHole, isDrawingRefLine) is set, and a pointer-move relocates no
\* hole, moves no info box, does not pan and does not extend the reference
\* line.
NoDragFlag(st) ==
    ~st.isPanning /\ ~st.isDraggingInfoBox /\ ~st.isDraggingHole /\ ~st.isDrawingRefLine

Anchors(st) == [k \in DOMAIN st.groups |-> st.groups[k].infoBoxAnchorImage]

MoveWithoutPointerDown ==
    (~ptr.down /\ \E p \in ImagePositions : s' = handleWindowPointerMove(Now, p)) =>
        /\ Marks(s') = Marks(s)
        /\ Anchors(s') = Anchors(s)
        /\ s'.viewCenter = s.viewCenter
        /\ s'.refLineEnd = s.refLineEnd

LostCaptureEndsDrag ==
    /\ [](~ptr.down => NoDragFlag(s))
    /\ [][MoveWithoutPointerDown]_vars

\* the same for the moves alone
LostCaptureStopsMoves == [][MoveWithoutPointerDown]_vars

\* C23: in every reachable state at most one of isPanning,
\* isDraggingInfoBox, isDraggingHole and isDrawingRefLine is true.
DragFlags(st) ==
    {f \in {"isPanning", "isDraggingInfoBox", "isDraggingHole", "isDrawingRefLine"} : st[f]}

AtMostOneDragFlag == Cardinality(DragFlags(s)) <= 1

\* C24: a click in mode placingHoles with Scale set, inside the image and
\* not suppressed, appends the clicked point to the active group's holes
\* (the holes it had keep their places, the other groups are unchanged) and
\* selects it; the continuation that follows leaves the group with valid
\* results.
UnsuppressedClick(mode) ==
    /\ click # NoObject /\ click' = NoObject
    /\ s.mode = mode /\ Truthy(s.scale)
    /\ ~s.ignoreNextClick /\ ~s.isPanning /\ ~s.isDrawingRefLine
    /\ s.activeGroupIndex # -1
    /\ canvasToImageCoords(s, click.pos) # NoObject

HoleAppended(before, after, P) ==
    /\ after.bulletHolesPixels = Append(before.bulletHolesPixels, P)
    /\ after.bulletHolesReal = Append(before.bulletHolesReal, ToReal(P, s.scale))
    /\ after.aimingPointPixels = before.aimingPointPixels
    /\ after.aimingPointReal = before.aimingPointReal

PlacingClick ==
    /\ UnsuppressedClick("placingHoles") =>
           /\ HoleAppended(s.groups[s.activeGroupIndex + 1], s'.groups[s.activeGroupIndex + 1],
                           canvasToImageCoords(s, click.pos))
           /\ OthersUnchanged(s.groups, s'.groups, s.activeGroupIndex)
           /\ s'.activeGroupIndex = s.activeGroupIndex
           /\ s'.selectedHoleIndex = Len(s.groups[s.activeGroupIndex + 1].bulletHolesPixels)
           /\ s'.micro = <<"calculateGroupResults">>
    /\ (s.micro = <<"calculateGroupResults">> /\ s.mode = "placingHoles"
            /\ s.selectedHoleIndex # NoIndex) =>
           /\ s'.groups[s.activeGroupIndex + 1].resultsValid
           /\ Marks(s') = Marks(s)
           /\ s'.selectedHoleIndex = s.selectedHoleIndex

PlacingClickAppendsHole == [][PlacingClick]_vars

\* a second hole placed in the second group: it is the last hole of the
\* group, selected, and the group's results are valid
PlacingClickAppendsHoleWitness ==
    /\ s.mode = "placingHoles" /\ s.micro = <<>> /\ s.activeGroupIndex = 1
    /\ Len(s.groups) = 2
    /\ Len(s.groups[2].bulletHolesPixels) = 2
    /\ s.groups[2].bulletHolesPixels[1] # s.groups[2].bulletHolesPixels[2]
    /\ s.selectedHoleIndex = 1
    /\ s.groups[2].resultsValid

\* C25: a click in mode placingAim with Scale set, inside the image and not
\* suppressed, makes the clicked point the active group's aiming point (in
\* pixels, and in real units as pixel / Scale) and leaves its holes alone;
\* the continuation that follows recomputes the group's statistics and sets
\* mode = placingHoles.
AimReplaced(before, after, P) ==
    /\ after.aimingPointPixels = P
    /\ after.aimingPointReal = ToReal(P, s.scale)
    /\ after.bulletHolesPixels = before.bulletHolesPixels
    /\ after.bulletHolesReal = before.bulletHolesReal
    /\ ~after.resultsValid

AimClick ==
    /\ UnsuppressedClick("placingAim") =>
           /\ AimReplaced(s.groups[s.activeGroupIndex + 1], s'.groups[s.activeGroupIndex + 1],
                          canvasToImageCoords(s, click.pos))
           /\ OthersUnchanged(s.groups, s'.groups, s.activeGroupIndex)
           /\ s'.activeGroupIndex = s.activeGroupIndex
           /\ s'.micro = <<"placingAim">>
    /\ s.micro = <<"placingAim">> =>
           /\ s'.mode = "placingHoles"
           /\ Marks(s') = Marks(s)
           /\ ResultsOf(s'.groups[s.activeGroupIndex + 1]) =
                  ResultsOf(GroupResults(s, s.groups[s.activeGroupIndex + 1]))

AimClickSetsAimingPoint == [][AimClick]_vars

\* an aiming point set in a group that holds a hole: the offset from it is
\* computed and the mode is placingHoles again
AimClickSetsAimingPointWitness ==
    /\ s.mode = "placingHoles" /\ s.micro = <<>> /\ s.activeGroupIndex # -1
    /\ \E i \in 1..Len(s.groups) :
           /\ i = s.activeGroupIndex + 1
           /\ s.groups[i].aimingPointPixels # NoObject
           /\ Len(s.groups[i].bulletHolesPixels) >= 1
           /\ s.groups[i].resultsValid
           /\ s.groups[i].offsetFromAim # NoObject

\* C26: a pointer-down or a click at a position of the canvas that
\* canvasToImageCoords maps to no image point (the letterbox padding) places
\* no hole and no aiming point, starts no reference line, no pan and no drag,
\* and leaves the selection, the mode, the scale and the view as they were:
\* nothing of the component's state changes but the flag that suppresses one
\* click, which a click uses up wherever it lands.
OutsideLetterbox(lb, bx, by) ==
    \/ RLt(bx, lb.dx) \/ RLt(RAdd(lb.dx, lb.dWidth), bx)
    \/ RLt(by, lb.dy) \/ RLt(RAdd(lb.dy, lb.dHeight), by)

InPadding(st, p) ==
    /\ canvasElement(st) /\ st.ctx /\ st.imageBitmap # NoObject /\ st.lastViewport # NoObject
    /\ OutsideLetterbox(st.letterboxParams,
                        RDiv(RMul(p.x, R(st.canvas.width)), R(st.display.width)),
                        RDiv(RMul(p.y, R(st.canvas.height)), R(st.display.height)))

SameButCounters(before, after) ==
    [after EXCEPT !.downs = before.downs, !.calib = before.calib,
                  !.ignoreNextClick = before.ignoreNextClick] = before

PaddingInput ==
    /\ (~ptr.down /\ ptr'.down /\ InPadding(s, ptr'.at)) =>
           /\ SameButCounters(s, s')
           /\ s'.ignoreNextClick = s.ignoreNextClick
           /\ ptr'.drag = "none"
    /\ (click # NoObject /\ click' = NoObject /\ InPadding(s, click.pos)) =>
           SameButCounters(s, s')

PaddingInputChangesNothing == [][PaddingInput]_vars

\* a press on the padding in every mode that starts a gesture, with a hole
\* selected
PaddingInputChangesNothingWitness ==
    /\ ptr.down /\ InPadding(s, ptr.at)
    /\ s.mode = "selectingHole" /\ s.selectedHoleIndex # NoIndex
    /\ ~s.capture

\* C27: a pointer-down on the info box of a group with valid results, an
\* anchor and a measured size starts an info-box drag and nothing else, in
\* every mode: no hole drag, no pan, no reference line; and the click that
\* follows the drag places no hole and no aiming point.
OnInfoBox(st, p) ==
    /\ canvasElement(st) /\ st.ctx /\ st.imageBitmap # NoObject /\ st.lastViewport # NoObject
    /\ InfoBoxUnder(st, p, Len(st.groups) - 1) # NoIndex

InfoBoxDragOnly ==
    /\ s'.isDraggingInfoBox /\ ptr'.drag = "infoBox"
    /\ ~s'.isDraggingHole /\ ~s'.isPanning /\ ~s'.isDrawingRefLine
    /\ s'.refLineStart = s.refLineStart /\ s'.refLineEnd = s.refLineEnd
    /\ s'.viewCenter = s.viewCenter
    /\ s'.groups = s.groups

InfoBoxDown ==
    /\ (~ptr.down /\ ptr'.down /\ OnInfoBox(s, ptr'.at)) => InfoBoxDragOnly
    /\ (click # NoObject /\ click' = NoObject /\ click.drag = "infoBox") =>
           Marks(s') = Marks(s)

InfoBoxDownStartsDrag == [][InfoBoxDown]_vars

\* the same for the pointer-downs that lie over the drawn image
InfoBoxDownOnImage ==
    /\ (~ptr.down /\ ptr'.down /\ OnInfoBox(s, ptr'.at) /\ ~InPadding(s, ptr'.at)) =>
           InfoBoxDragOnly
    /\ (click # NoObject /\ click' = NoObject /\ click.drag = "infoBox") =>
           Marks(s') = Marks(s)

InfoBoxDownOnImageStartsDrag == [][InfoBoxDownOnImage]_vars

\* C28: after a change of the reference length or of the reference unit
\* (handleReferenceInputChange has run) refLineStart and refLineEnd are null.
ReferenceInputChanged ==
    s'.referenceLength # s.referenceLength \/ s'.referenceUnit # s.referenceUnit

ReferenceInputClearsLine ==
    [][ReferenceInputChanged =>
           s'.refLineStart = NoObject /\ s'.refLineEnd = NoObject]_vars

\* C29: the pixel coordinates of the holes and of the aiming point of every
\* group are left unchanged by a calibration (a call of calculateScale), by a
\* change of the reference length or unit, of the target distance or its
\* unit and of the units the results are shown in; the last two kinds of
\* change leave the scale unchanged too.
TargetDistanceChanged ==
    s'.targetDistance # s.targetDistance \/ s'.targetDistanceUnit # s.targetDistanceUnit

DisplayUnitChanged ==
    s'.resultDisplayUnit # s.resultDisplayUnit \/ s'.angularUnitDisplay # s.angularUnitDisplay

PixelsKept ==
    /\ (s'.calib # "none" \/ ReferenceInputChanged) => Marks(s') = Marks(s)
    /\ (TargetDistanceChanged \/ DisplayUnitChanged) =>
           Marks(s') = Marks(s) /\ s'.scale = s.scale

PixelsAreSourceOfTruth == [][PixelsKept]_vars

\* a group with a hole and an aiming point whose scale has been changed
\* after they were placed, with the target distance in metres and the
\* results shown in mrad
PixelsAreSourceOfTruthWitness ==
    /\ Len(s.groups) = 1
    /\ Len(s.groups[1].bulletHolesPixels) = 1
    /\ s.groups[1].aimingPointPixels # NoObject
    /\ s.referenceLength = 2 /\ s.referenceUnit = "mm"
    /\ s.targetDistanceUnit = "meters" /\ s.angularUnitDisplay = "mrad"
    /\ s.groups[1].resultsValid

\* C30: an info-box anchor that has been set stays as it is while its group
\* exists: it gets another value only by a drag of that group's info box, and
\* it is cleared only by a scale change (a successful calculateScale, or
\* handleReferenceInputChange without a reference line).
AnchorChange(before, after, i) ==
    IF after.infoBoxAnchorImage = NoObject
    THEN s'.calib \in {"ok", "noLine"}
    ELSE /\ ptr.down /\ s.capture
         /\ s.isDraggingInfoBox /\ s.draggingGroupIndex = i - 1

AnchorKept ==
    \A i \in 1..Len(s.groups), j \in 1..Len(s'.groups) :
        (/\ s.groups[i].id = s'.groups[j].id
         /\ s.groups[i].infoBoxAnchorImage # NoObject
         /\ s'.groups[j].infoBoxAnchorImage # s.groups[i].infoBoxAnchorImage)
            => AnchorChange(s.groups[i], s'.groups[j], i)

StaleSelection(st) ==
    /\ st.activeGroupIndex >= 0 /\ st.activeGroupIndex < Len(st.groups)
    /\ st.selectedHoleIndex # NoIndex
    /\ \/ st.selectedHoleIndex < 0
       \/ st.selectedHoleIndex >= Len(At(st.groups, st.activeGroupIndex).bulletHolesPixels)

HolesOf(st) == [k \in DOMAIN st.groups |->
                   <<st.groups[k].bulletHolesPixels, st.groups[k].bulletHolesReal>>]

StaleDeleteClears ==
    /\ \A key \in {"Delete", "Backspace"} :
           handleKeyDown(Now, key) \in {Now, [Now EXCEPT !.selectedHoleIndex = NoIndex]}
    /\ deleteSelectedHole(Now) = [Now EXCEPT !.selectedHoleIndex = NoIndex]

StaleNudgeIsNoOp ==
    /\ \A key \in {"ArrowUp", "ArrowDown", "ArrowLeft", "ArrowRight"} :
           handleKeyDown(Now, key) = Now
    /\ nudgeSelectedHolePx(Now, R(1), R(1)) = Now

StaleDownDragsNoHole ==
    \A p \in ImagePositions :
        /\ ~handleCanvasPointerDown(Now, p).isDraggingHole
        /\ HolesOf(handleCanvasPointerDown(Now, p)) = HolesOf(s)

StaleSelectionIsNoSelection ==
    StaleSelection(s) => StaleDeleteClears /\ StaleNudgeIsNoOp /\ StaleDownDragsNoHole

\* the selection of a deleted group left over in Select mode, with a scale,
\* so that the key handler gets as far as the range tests
StaleSelectionIsNoSelectionWitness ==
    /\ StaleSelection(s) /\ Ready /\ ~ptr.down
    /\ s.mode = "selectingHole" /\ Truthy(s.scale)
    /\ s.lastViewport # NoObject
    /\ handleKeyDown(Now, "Delete") = [Now EXCEPT !.selectedHoleIndex = NoIndex]

\* C32: the arrow keys and Delete/Backspace nudge or remove a hole only in
\* the mode selectingHole: in every other mode a key press leaves the holes of
\* every group as they are.
KeyNames == {"ArrowUp", "ArrowDown", "ArrowLeft", "ArrowRight", "Delete", "Backspace"}

KeysEditOnlyInSelectMode ==
    s.mode # "selectingHole" =>
        \A key \in KeyNames : HolesOf(handleKeyDown(Now, key)) = HolesOf(s)

\* the same for the modes in which no hole is selected by a click
KeysIdleOutsideMarkingModes ==
    s.mode \notin {"selectingHole", "placingHoles"} =>
        \A key \in KeyNames : HolesOf(handleKeyDown(Now, key)) = HolesOf(s)

\* C33: hit-testing and drawing of the info boxes agree: for every group
\* whose box is drawn, the display rectangle handleCanvasPointerDown tests is
\* the rectangle drawInfoBox fills, also when the drawn position is clamped.
BoxShown(st, g) ==
    /\ g.resultsValid /\ g.infoBoxAnchorImage # NoObject /\ g.infoBoxSize # NoObject
    /\ st.canvas.width > 0 /\ st.canvas.height > 0
    /\ st.display.width > 0 /\ st.display.height > 0
    /\ imageToCanvasCoords(st, g.infoBoxAnchorImage) # NoObject

HitRectIsDrawnRect ==
    Ready =>
        \A i \in 1..Len(s.groups) :
            BoxShown(s, s.groups[i]) =>
                InfoBoxDisplayRect(s, s.groups[i],
                                   imageToCanvasCoords(s, s.groups[i].infoBoxAnchorImage))
                    = InfoBoxDrawnRect(s, s.groups[i],
                                       imageToCanvasCoords(s, s.groups[i].infoBoxAnchorImage))

\* a pointer-down on a drawn box, over the image, starts the drag of a box
DownOnDrawnBox ==
    (/\ ~ptr.down /\ ptr'.down /\ Ready
     /\ canvasToImageCoords(s, ptr'.at) # NoObject
     /\ \E i \in 1..Len(s.groups) :
            /\ BoxShown(s, s.groups[i])
            /\ isPointInRect(ptr'.at,
                   InfoBoxDrawnRect(s, s.groups[i],
                                    imageToCanvasCoords(s, s.groups[i].infoBoxAnchorImage))))
        => s'.isDraggingInfoBox

DownOnDrawnBoxStartsDrag == [][DownOnDrawnBox]_vars

\* C34: zoom toward a point: when zoom(factor, pointer) changes viewScale,
\* viewCenter becomes P - (P - oldCenter) * (oldScale / newScale) for the image
\* point P under the pointer, and P is shown at the pointer's display position
\* after the zoom as before it, for every pointer position inside the image.
ZoomCenterFor(st, P, newScale) ==
    [x |-> RSub(P.x, RMul(RSub(P.x, st.viewCenter.x), RDiv(st.viewScale, newScale))),
     y |-> RSub(P.y, RMul(RSub(P.y, st.viewCenter.y), RDiv(st.viewScale, newScale)))]

ShownAt(st, P) == BufferToDisplay(st, imageToCanvasCoords(st, P))

ZoomKeepsPoint(st, after, P, p) ==
    (P # NoObject /\ after.viewScale # st.viewScale) =>
        /\ after.viewCenter = ZoomCenterFor(st, P, after.viewScale)
        /\ ShownAt(after, P) = p

ZoomTowardPointer ==
    (Ready /\ s.imageBitmap # NoObject /\ s.lastViewport # NoObject) =>
        \A p \in ImagePositions, deltaY \in {-1, 1} :
            ZoomKeepsPoint(Now, handleWheel(Now, deltaY, p), canvasToImageCoords(Now, p), p)

\* the same where clampViewCenter has nothing to correct after the zoom
ZoomKeepsPointUnclamped(st, after, P, p) ==
    (/\ P # NoObject /\ after.viewScale # st.viewScale
     /\ after.viewCenter = ZoomCenterFor(st, P, after.viewScale))
        => ShownAt(after, P) = p

ZoomTowardPointerUnclamped ==
    (Ready /\ s.imageBitmap # NoObject /\ s.lastViewport # NoObject) =>
        \A p \in ImagePositions, deltaY \in {-1, 1} :
            ZoomKeepsPointUnclamped(Now, handleWheel(Now, deltaY, p),
                                    canvasToImageCoords(Now, p), p)

\* C35: the most recent pointer position wins: when a hole drag or a
\* reference-line draw ends with pointer-up, the dragged hole (the end of the
\* line) is at the image point of the last delivered pointer position, clamped
\* to the image, whatever redraws were skipped, and the group of the dragged
\* hole has been recomputed (resultsValid).
DragPositions == {PosTop, PosMid, PosPad}

\* the image point of a display position, clamped to the image
ClampedImagePoint(st, p) ==
    BufferToImageCoordsUntested(st,
        RMul(RDiv(p.x, R(st.display.width)), R(st.canvas.width)),
        RMul(RDiv(p.y, R(st.display.height)), R(st.canvas.height)))

\* two pointer-moves and the pointer-up delivered with no redraw in between
DragEndedAt(st, p1, p2, up) ==
    handleWindowPointerUp(handleWindowPointerMove(handleWindowPointerMove(st, p1), p2), up)

HoleDragActive(st) ==
    /\ st.isDraggingHole /\ st.capture /\ Truthy(st.scale)
    /\ st.activeGroupIndex >= 0 /\ st.activeGroupIndex < Len(st.groups)
    /\ st.selectedHoleIndex >= 0
    /\ st.selectedHoleIndex < Len(At(st.groups, st.activeGroupIndex).bulletHolesPixels)

RefLineDrawActive(st) ==
    st.mode = "scaling" /\ st.isDrawingRefLine /\ st.capture /\ st.refLineStart # NoObject

HoleEndsAt(st, after, last) ==
    /\ At(At(after.groups, st.activeGroupIndex).bulletHolesPixels, st.selectedHoleIndex)
           = ClampedImagePoint(st, last)
    /\ At(after.groups, st.activeGroupIndex).resultsValid

LineEndsAt(st, after, last) ==
    after.calib = "ok" => after.refLineEnd = ClampedImagePoint(st, last)

DragEndsAtLast(positions) ==
    (Idle /\ click = NoObject /\ ptr.down /\ canvasElement(s) /\ s.lastViewport # NoObject) =>
        \A p1 \in positions, p2 \in positions :
            /\ HoleDragActive(s) => HoleEndsAt(Now, DragEndedAt(Now, p1, p2, p2), p2)
            /\ RefLineDrawActive(s) => LineEndsAt(Now, DragEndedAt(Now, p1, p2, p2), p2)

LastPositionWins == DragEndsAtLast(DragPositions)

\* the same for pointer positions over the drawn image
LastPositionOnImageWins == DragEndsAtLast(ImagePositions)

\* C36: whenever there is a group, activeGroupIndex is the index of one of
\* the groups, after any sequence of addNewGroup, switchToGroup and
\* deleteGroup; and deleting a group that is not the active one leaves the
\* same group, by id, active.
ActiveGroupInRange(st) ==
    st.groups # <<>> => (st.activeGroupIndex >= 0 /\ st.activeGroupIndex < Len(st.groups))

GroupIds(st) == {st.groups[k].id : k \in DOMAIN st.groups}

ActiveId(st) == At(st.groups, st.activeGroupIndex).id

\* a step that removes a group other than the active one
NonActiveGroupDeleted ==
    /\ s.groups # <<>> /\ s'.groups # <<>>
    /\ GroupIds(s') \subseteq GroupIds(s) /\ GroupIds(s') # GroupIds(s)
    /\ ActiveId(s) \in GroupIds(s')

ActiveGroupStep ==
    /\ ActiveGroupInRange(s) /\ ActiveGroupInRange(s')
    /\ NonActiveGroupDeleted => ActiveId(s') = ActiveId(s)

ActiveGroupIndexValid == [][ActiveGroupStep]_vars

\* the group created first is gone: the group created second is the only and
\* the active one, at index 0, with its hole still selected
ActiveGroupIndexValidWitness ==
    /\ Len(s.groups) = 1 /\ s.groups[1].id = 1 /\ s.activeGroupIndex = 0
    /\ Len(s.groups[1].bulletHolesPixels) = 1
    /\ s.selectedHoleIndex = 0

\* C37: every operation that changes which group is active (addNewGroup,
\* switchToGroup, deleteGroup of the active group) clears the hole selection.
ActiveGroupChanged ==
    /\ s.groups # <<>> /\ s'.groups # <<>>
    /\ ActiveGroupInRange(s) /\ ActiveGroupInRange(s')
    /\ ActiveId(s') # ActiveId(s)

ActiveChangeStep == ActiveGroupChanged => s'.selectedHoleIndex = NoIndex

ActiveChangeClearsSelection == [][ActiveChangeStep]_vars

\* the same without the deletions: addNewGroup and switchToGroup
ActiveChangeKeepingGroups ==
    (ActiveGroupChanged /\ GroupIds(s) \subseteq GroupIds(s')) => s'.selectedHoleIndex = NoIndex

AddAndSwitchClearSelection == [][ActiveChangeKeepingGroups]_vars

\* the selection made in a deleted group is in range for the group that became
\* active: Delete and the arrow keys would then edit a hole of that group
InheritedSelection ==
    /\ ActiveGroupChanged /\ s'.selectedHoleIndex # NoIndex
    /\ s'.selectedHoleIndex < Len(At(s'.groups, s'.activeGroupIndex).bulletHolesPixels)
    /\ Truthy(s'.scale)

NoInheritedSelection == [][~InheritedSelection]_vars

\* C38: when a second file is selected before the decoding of the first has
\* resolved, the bitmap installed in the end is that of the file selected
\* last, in either order of resolution; and groups, scale and holes made on
\* one bitmap are not kept when another bitmap is installed.
NoLoadPending(st) == PendingLoads(st) = 0

LastSelectedInstalled(st) ==
    (NoLoadPending(st) /\ st.imageBitmap # NoObject) => st.imageBitmap.file = st.imageFile

BitmapReplaced ==
    /\ s.imageBitmap # NoObject /\ s'.imageBitmap # NoObject
    /\ s'.imageBitmap.file # s.imageBitmap.file

ReloadStep ==
    /\ LastSelectedInstalled(s')
    /\ BitmapReplaced => (s'.scale = NoNumber /\ TotalHoles(s') = 0)

LatestFileWins == [][ReloadStep]_vars

\* the two halves of the statement on their own
LastSelectedFileInstalled == LastSelectedInstalled(s)

BitmapReplacedStep == BitmapReplaced => (s'.scale = NoNumber /\ TotalHoles(s') = 0)

MarksNotKeptAcrossBitmaps == [][BitmapReplacedStep]_vars

\* C39: the click-suppression flag is short-lived: whenever ignoreNextClick
\* is set it is false again later; it is set only by the pointer-up that ends a
\* drag, always with a timer pending that clears it, and every click leaves it
\* false, so that a drag suppresses one click at most and no click is
\* suppressed once the timers have fired.
FlagSetOnlyByDragEnd ==
    (~s.ignoreNextClick /\ s'.ignoreNextClick) =>
        (ptr.down /\ ~ptr'.down /\ WasDragging(s) /\ s'.timers = s.timers + 1)

ClickClearsFlag == (click # NoObject /\ click' = NoObject) => ~s'.ignoreNextClick

FlagHasTimer == s.ignoreNextClick => s.timers > 0

SuppressionStep == FlagSetOnlyByDragEnd /\ ClickClearsFlag /\ FlagHasTimer /\ FlagHasTimer'

SuppressionIsShortLived ==
    /\ [][SuppressionStep]_vars
    /\ (s.ignoreNextClick ~> ~s.ignoreNextClick)

\* a drag released off the canvas, so that no click follows it: the flag is
\* set and only the timer is left to clear it
SuppressionIsShortLivedWitness ==
    /\ s.ignoreNextClick /\ click = NoObject /\ ~ptr.down
    /\ s.timers = 1 /\ Idle

====
